---- MODULE Spec2Model ----
(***************************************************************************)
(* attendly: the office-attendance tracker (OfficeTracker.tsx), its date   *)
(* utilities (dateUtils.ts, bankHolidays.ts), the dashboard copy of the    *)
(* compliance calculation (Home.tsx) and the Firestore document helpers    *)
(* (services/database.ts), as a state machine.                             *)
(*                                                                         *)
(* Representation.                                                         *)
(*   Date     a JavaScript Date at local midnight: the number of days      *)
(*            since 1970-01-01 (a Thursday).                               *)
(*   DateKey  the string 'YYYY-MM-DD': the number YYYY*10000+MM*100+DD.    *)
(*            For four-digit years the order of the zero-padded strings is *)
(*            the order of these numbers, so the code's string comparisons *)
(*            are number comparisons here.                                 *)
(*   MonthKey the string 'YYYY-MM': the number YYYY*100+MM.                *)
(*   Set<string>            a set of DateKeys.                             *)
(*   Map<string, kind>      a function from a set of DateKeys to kinds.    *)
(***************************************************************************)
EXTENDS Integers, Sequences, FiniteSets, TLC

(***************************************************************************)
(* JavaScript Date arithmetic                                              *)
(***************************************************************************)

\* Days since 1970-01-01 of the valid civil date y-m-d, m in 1..12.
\* (Each step of the two conversions takes the values computed so far as
\* its parameters.)
DaysOfEra(era, yoe, doy) ==
  era * 146097 + (yoe * 365 + yoe \div 4 - yoe \div 100 + doy) - 719468

DaysOfShiftedYear(yy, mp, d) ==
  DaysOfEra(yy \div 400, yy % 400, (153 * mp + 2) \div 5 + d - 1)

DaysFromCivil(y, m, d) ==
  DaysOfShiftedYear(IF m <= 2 THEN y - 1 ELSE y, IF m > 2 THEN m - 3 ELSE m + 9, d)

CivilOfMonth(y, m, d) == << IF m <= 2 THEN y + 1 ELSE y, m, d >>

CivilOfMp(era, yoe, doy, mp) ==
  CivilOfMonth(yoe + era * 400, IF mp < 10 THEN mp + 3 ELSE mp - 9,
               doy - (153 * mp + 2) \div 5 + 1)

CivilOfDoy(era, yoe, doy) == CivilOfMp(era, yoe, doy, (5 * doy + 2) \div 153)

CivilOfYoe(era, doe, yoe) ==
  CivilOfDoy(era, yoe, doe - (365 * yoe + yoe \div 4 - yoe \div 100))

CivilOfDoe(era, doe) ==
  CivilOfYoe(era, doe,
             (doe - doe \div 1460 + doe \div 36524 - doe \div 146096) \div 365)

\* The civil date <<year, month 1..12, day>> of a day number.
CivilFromDays(z) == CivilOfDoe((z + 719468) \div 146097, (z + 719468) % 146097)

\* new Date(y, m, d): m is 0-based; a month outside 0..11 and a day outside
\* the month carry over (new Date(y, m + 1, 0) is the last day of month m).
MkDate(y, m, d) == DaysFromCivil(y + m \div 12, (m % 12) + 1, 1) + (d - 1)

getFullYear(date) == CivilFromDays(date)[1]
getMonth(date)    == CivilFromDays(date)[2] - 1
getDate(date)     == CivilFromDays(date)[3]
\* 0 = Sunday ... 6 = Saturday
getDay(date)      == (date + 4) % 7

(***************************************************************************)
(* dateUtils.ts                                                            *)
(***************************************************************************)

\* formatDate: 'YYYY-MM-DD' with zero-padded month and day.
DateKeyOf(c) == c[1] * 10000 + c[2] * 100 + c[3]
formatDate(date) == DateKeyOf(CivilFromDays(date))   \* <<year, month + 1, day>>

\* parseDate: split on '-', new Date(y, m - 1, d).
parseDate(str) == MkDate(str \div 10000, ((str \div 100) % 100) - 1, str % 100)

\* A different test: Sunday only.
isWeekendSundayOnly(date) == getDay(date) = 0

isWeekend(date) == getDay(date) = 0 \/ getDay(date) = 6

\* The while loop of getDaysInRange: push a copy of cur, then
\* cur.setDate(cur.getDate() + 1), as long as cur <= last.
SetDateNext(c) == MkDate(c[1], c[2] - 1, c[3] + 1)
RECURSIVE DaysLoopExclusive(_, _, _)
DaysLoopExclusive(cur, last, days) ==
  IF cur < last
  THEN DaysLoopExclusive(SetDateNext(CivilFromDays(cur)), last, Append(days, cur))
  ELSE days

RECURSIVE DaysLoop(_, _, _)
DaysLoop(cur, last, days) ==
  IF cur <= last
  THEN DaysLoop(SetDateNext(CivilFromDays(cur)), last, Append(days, cur))
  ELSE days

\* new Date(d.getFullYear(), d.getMonth(), d.getDate())
CopyDate(c) == MkDate(c[1], c[2] - 1, c[3])
getDaysInRange(start, end) ==
  DaysLoop(CopyDate(CivilFromDays(start)), CopyDate(CivilFromDays(end)), <<>>)

\* addMonths: the 1st of the month delta months away.
AddMonthsOf(c, delta) == MkDate(c[1], c[2] - 1 + delta, 1)
addMonths(date, delta) == AddMonthsOf(CivilFromDays(date), delta)

\* monthKey of the viewed month: `${year}-${month + 1 padded to 2}`.
MonthKeyOfCivil(c) == c[1] * 100 + c[2]
MonthKeyOf(viewMonth) == MonthKeyOfCivil(CivilFromDays(viewMonth))

(***************************************************************************)
(* bankHolidays.ts: England & Wales 2025-2026                              *)
(***************************************************************************)
BANK_HOLIDAYS ==
  { 20250101, 20250418, 20250421, 20250505, 20250526, 20250825, 20251225,
    20251226, 20260101, 20260403, 20260406, 20260504, 20260525, 20260831,
    20261225, 20261228 }

isBankHoliday(dateStr) == dateStr \in BANK_HOLIDAYS

(***************************************************************************)
(* OfficeTracker.tsx: the core calculation (useMemo calc)                  *)
(***************************************************************************)

\* dateRange: the full month of viewMonth.
DateRangeStartOf(c) == MkDate(c[1], c[2] - 1, 1)
DateRangeEndOf(c)   == MkDate(c[1], c[2], 0)
dateRangeStart(viewMonth) == DateRangeStartOf(CivilFromDays(viewMonth))
dateRangeEnd(viewMonth)   == DateRangeEndOf(CivilFromDays(viewMonth))

\* A different loop body: the manual exclusion is looked at before the
\* automatic rules.
DayBucketManualFirst(day, excludedDays, excludeWeekends, excludeBankHolidays, holidayLeaveDays) ==
  LET ds == formatDate(day)
  IN  IF ds \in DOMAIN excludedDays THEN "manualExcluded"
      ELSE IF isWeekend(day) /\ excludeWeekends THEN "weekend"
      ELSE IF isBankHoliday(ds) /\ excludeBankHolidays THEN "bankHoliday"
      ELSE IF ds \in holidayLeaveDays THEN "holidayLeave"
      ELSE "working"

\* The body of calc's for loop: the first matching rule decides the bucket.
DayBucketOf(day, ds, excludedDays, excludeWeekends, excludeBankHolidays, holidayLeaveDays) ==
  IF isWeekend(day) /\ excludeWeekends THEN "weekend"
  ELSE IF isBankHoliday(ds) /\ excludeBankHolidays THEN "bankHoliday"
  ELSE IF ds \in DOMAIN excludedDays THEN "manualExcluded"
  ELSE IF ds \in holidayLeaveDays THEN "holidayLeave"
  ELSE "working"

DayBucket(day, excludedDays, excludeWeekends, excludeBankHolidays, holidayLeaveDays) ==
  DayBucketOf(day, formatDate(day), excludedDays, excludeWeekends,
              excludeBankHolidays, holidayLeaveDays)

\* A different rounding: Math.floor in place of Math.ceil.
RequiredOfficeDaysFloor(workingDays, reqValue) ==
  (workingDays * reqValue) \div 100

\* Math.ceil(workingDays * reqValue / 100) on integers.
RequiredOfficeDays(workingDays, reqValue) ==
  (workingDays * reqValue + 99) \div 100

\* A different count: every office mark, in the pool or not.
SelectedOfficeDaysAllMarks(officeDays, workingDaySet) ==
  Cardinality(officeDays)

\* [...officeDays].filter((d) => workingDaySet.has(d)).length
SelectedOfficeDays(officeDays, workingDaySet) ==
  Cardinality({d \in officeDays : d \in workingDaySet})

\* A different progress: 0 when nothing is required.
ProgressPercentageZeroWhenNoneRequired(selectedOfficeDays, requiredOfficeDays) ==
  IF requiredOfficeDays > 0
  THEN LET rounded == (200 * selectedOfficeDays + requiredOfficeDays)
                        \div (2 * requiredOfficeDays)
       IN  IF rounded < 100 THEN rounded ELSE 100
  ELSE 0

\* A different progress: no Math.min(100, ...).
ProgressPercentageUncapped(selectedOfficeDays, requiredOfficeDays) ==
  IF requiredOfficeDays > 0
  THEN (200 * selectedOfficeDays + requiredOfficeDays) \div (2 * requiredOfficeDays)
  ELSE 100

\* required > 0 ? Math.min(100, Math.round(selected / required * 100)) : 100
\* (Math.round rounds a half up; every half case here is exact in binary.)
ProgressPercentage(selectedOfficeDays, requiredOfficeDays) ==
  IF requiredOfficeDays > 0
  THEN LET rounded == (200 * selectedOfficeDays + requiredOfficeDays)
                        \div (2 * requiredOfficeDays)
       IN  IF rounded < 100 THEN rounded ELSE 100
  ELSE 100

\* A different status: the at-risk test made before the on-track test.
ComplianceStatusAtRiskFirst(selectedOfficeDays, requiredOfficeDays) ==
  IF 4 * selectedOfficeDays >= 3 * requiredOfficeDays THEN "at-risk"
  ELSE IF selectedOfficeDays >= requiredOfficeDays THEN "on-track"
  ELSE "not-meeting"

\* A different threshold: at-risk from half of the requirement.
ComplianceStatusHalfThreshold(selectedOfficeDays, requiredOfficeDays) ==
  IF selectedOfficeDays >= requiredOfficeDays THEN "on-track"
  ELSE IF 2 * selectedOfficeDays >= requiredOfficeDays THEN "at-risk"
  ELSE "not-meeting"

\* selected >= required ? 'on-track' : selected >= required * 0.75 ? 'at-risk'
\* : 'not-meeting'   (required * 0.75 is exact: compared as 4*selected >= 3*required)
ComplianceStatus(selectedOfficeDays, requiredOfficeDays) ==
  IF selectedOfficeDays >= requiredOfficeDays THEN "on-track"
  ELSE IF 4 * selectedOfficeDays >= 3 * requiredOfficeDays THEN "at-risk"
  ELSE "not-meeting"

\* calc's accumulators before the loop.
CalcAcc0 ==
  [ weekendCount |-> 0, bankHolidayCount |-> 0, manualExcludedCount |-> 0,
    holidayLeaveCount |-> 0, workingDaySet |-> {} ]

\* One pass of the loop body on the accumulators: b is the day's bucket, ds
\* its DateKey.
CalcStep(acc, b, ds) ==
  IF b = "weekend" THEN [acc EXCEPT !.weekendCount = @ + 1]
  ELSE IF b = "bankHoliday" THEN [acc EXCEPT !.bankHolidayCount = @ + 1]
  ELSE IF b = "manualExcluded" THEN [acc EXCEPT !.manualExcludedCount = @ + 1]
  ELSE IF b = "holidayLeave" THEN [acc EXCEPT !.holidayLeaveCount = @ + 1]
  ELSE [acc EXCEPT !.workingDaySet = @ \cup {ds}]

\* for (const day of allDays) { ... }, from index i on.
RECURSIVE CalcLoop(_, _, _, _, _, _, _)
CalcLoop(allDays, i, acc, excludedDays, excludeWeekends, excludeBankHolidays, holidayLeaveDays) ==
  IF i > Len(allDays) THEN acc
  ELSE CalcLoop(allDays, i + 1,
                CalcStep(acc,
                         DayBucket(allDays[i], excludedDays, excludeWeekends,
                                   excludeBankHolidays, holidayLeaveDays),
                         formatDate(allDays[i])),
                excludedDays, excludeWeekends, excludeBankHolidays, holidayLeaveDays)

\* Lines 659-691 of calc: the totals and the returned object.
CalcReturn(rangeStartStr, rangeEndStr, totalDays, acc, workingDays, requiredOfficeDays, selectedOfficeDays) ==
  [ rangeStartStr       |-> rangeStartStr,
    rangeEndStr         |-> rangeEndStr,
    totalDays           |-> totalDays,
    weekendCount        |-> acc.weekendCount,
    bankHolidayCount    |-> acc.bankHolidayCount,
    manualExcludedCount |-> acc.manualExcludedCount,
    holidayLeaveCount   |-> acc.holidayLeaveCount,
    totalExcluded       |-> acc.weekendCount + acc.bankHolidayCount
                              + acc.manualExcludedCount + acc.holidayLeaveCount,
    workingDays         |-> workingDays,
    workingDaySet       |-> acc.workingDaySet,
    requiredOfficeDays  |-> requiredOfficeDays,
    selectedOfficeDays  |-> selectedOfficeDays,
    progressPercentage  |-> ProgressPercentage(selectedOfficeDays, requiredOfficeDays),
    complianceStatus    |-> ComplianceStatus(selectedOfficeDays, requiredOfficeDays) ]

\* Lines 659-663 of calc, given the loop's accumulators.
CalcTotals(rangeStartStr, rangeEndStr, totalDays, acc, reqValue, officeDays) ==
  CalcReturn(rangeStartStr, rangeEndStr, totalDays, acc,
             Cardinality(acc.workingDaySet),
             RequiredOfficeDays(Cardinality(acc.workingDaySet), reqValue),
             SelectedOfficeDays(officeDays, acc.workingDaySet))

\* calc from allDays on (line 642).
CalcDays(rangeStartStr, rangeEndStr, allDays, reqValue, officeDays, excludedDays, excludeWeekends, excludeBankHolidays, holidayLeaveDays) ==
  CalcTotals(rangeStartStr, rangeEndStr, Len(allDays),
             CalcLoop(allDays, 1, CalcAcc0, excludedDays, excludeWeekends,
                      excludeBankHolidays, holidayLeaveDays),
             reqValue, officeDays)

\* calc given dateRange.
CalcRange(start, end, reqValue, officeDays, excludedDays, excludeWeekends, excludeBankHolidays, holidayLeaveDays) ==
  CalcDays(formatDate(start), formatDate(end), getDaysInRange(start, end),
           reqValue, officeDays, excludedDays, excludeWeekends,
           excludeBankHolidays, holidayLeaveDays)

calc(viewMonth, reqValue, officeDays, excludedDays, excludeWeekends, excludeBankHolidays, holidayLeaveDays) ==
  CalcRange(dateRangeStart(viewMonth), dateRangeEnd(viewMonth), reqValue, officeDays,
            excludedDays, excludeWeekends, excludeBankHolidays, holidayLeaveDays)

(***************************************************************************)
(* Home.tsx: the dashboard's copy of the calculation (useMemo officeCalc)  *)
(* for the month of `now`.                                                 *)
(***************************************************************************)
\* The four `continue` tests of officeCalc's loop body.
HomeSkips(day, ds, excludedDays, excludeWeekends, excludeBankHolidays, holidayLeaveDays) ==
  \/ isWeekend(day) /\ excludeWeekends
  \/ isBankHoliday(ds) /\ excludeBankHolidays
  \/ ds \in DOMAIN excludedDays
  \/ ds \in holidayLeaveDays

HomeStep(workingDaySet, day, ds, excludedDays, excludeWeekends, excludeBankHolidays, holidayLeaveDays) ==
  IF HomeSkips(day, ds, excludedDays, excludeWeekends, excludeBankHolidays, holidayLeaveDays)
  THEN workingDaySet
  ELSE workingDaySet \cup {ds}

\* officeCalc's for loop, from index i on: the working-day set.
RECURSIVE HomeLoop(_, _, _, _, _, _, _)
HomeLoop(allDays, i, workingDaySet, excludedDays, excludeWeekends, excludeBankHolidays, holidayLeaveDays) ==
  IF i > Len(allDays) THEN workingDaySet
  ELSE HomeLoop(allDays, i + 1,
                HomeStep(workingDaySet, allDays[i], formatDate(allDays[i]), excludedDays,
                         excludeWeekends, excludeBankHolidays, holidayLeaveDays),
                excludedDays, excludeWeekends, excludeBankHolidays, holidayLeaveDays)

\* Math.round(selectedOfficeDays / requiredOfficeDays * 100), requiredOfficeDays > 0.
HomeRounded(selectedOfficeDays, requiredOfficeDays) ==
  (200 * selectedOfficeDays + requiredOfficeDays) \div (2 * requiredOfficeDays)

\* Lines 144-154 of officeCalc.
HomeReturn(workingDays, requiredOfficeDays, selectedOfficeDays) ==
  [ workingDays        |-> workingDays,
    requiredOfficeDays |-> requiredOfficeDays,
    selectedOfficeDays |-> selectedOfficeDays,
    progressPercentage |->
      IF requiredOfficeDays > 0
      THEN (IF HomeRounded(selectedOfficeDays, requiredOfficeDays) < 100
            THEN HomeRounded(selectedOfficeDays, requiredOfficeDays) ELSE 100)
      ELSE 100,
    status |->
      IF selectedOfficeDays >= requiredOfficeDays THEN "on-track"
      ELSE IF 4 * selectedOfficeDays >= 3 * requiredOfficeDays THEN "at-risk"
      ELSE "not-meeting" ]

\* Lines 141-143 of officeCalc, given the loop's working-day set.
HomeTotals(workingDaySet, reqValue, officeDays) ==
  HomeReturn(Cardinality(workingDaySet),
             (Cardinality(workingDaySet) * reqValue + 99) \div 100,
             Cardinality({d \in officeDays : d \in workingDaySet}))

\* officeCalc given the civil date of now.
HomeCalcOf(c, reqValue, officeDays, excludedDays, excludeWeekends, excludeBankHolidays, holidayLeaveDays) ==
  HomeTotals(HomeLoop(getDaysInRange(MkDate(c[1], c[2] - 1, 1), MkDate(c[1], c[2], 0)),
                      1, {}, excludedDays, excludeWeekends, excludeBankHolidays,
                      holidayLeaveDays),
             reqValue, officeDays)

officeCalc(now, reqValue, officeDays, excludedDays, excludeWeekends, excludeBankHolidays, holidayLeaveDays) ==
  HomeCalcOf(CivilFromDays(now), reqValue, officeDays, excludedDays, excludeWeekends,
             excludeBankHolidays, holidayLeaveDays)

\* getCalendarGrid: startOffset empty cells (null, written 0 here), then the
\* month's DateKeys in order.
getCalendarGrid(year, month) ==
  LET firstDay    == MkDate(year, month, 1)
      daysInMonth == getDate(MkDate(year, month + 1, 0))
      startOffset == (getDay(firstDay) + 6) % 7
  IN  [i \in 1..startOffset |-> 0]
        \o [d \in 1..daysInMonth |-> formatDate(MkDate(year, month, d))]

(***************************************************************************)
(* Leave.tsx: helpers                                                      *)
(***************************************************************************)

\* A different count: bank holidays are counted as working days.
CountWorkingBetweenWeekendsOnly(start, end) ==
  IF start > end
  THEN 0
  ELSE Len(SelectSeq(getDaysInRange(start, end), LAMBDA d : ~isWeekend(d)))

\* countWorkingDays from its guard on, given the two parsed dates.
CountWorkingBetween(start, end) ==
  IF start > end
  THEN 0
  ELSE Len(SelectSeq(getDaysInRange(start, end),
                     LAMBDA d : ~isWeekend(d) /\ ~isBankHoliday(formatDate(d))))

\* countWorkingDays(fromDate, toDate) of Leave.tsx and of Home.tsx (the same
\* text in both files).
countWorkingDays(fromDate, toDate) ==
  CountWorkingBetween(parseDate(fromDate), parseDate(toDate))

\* The three loops of buildFullCalendarGrid, given startOffset, daysInMonth
\* and fill (0 when the month's last row is complete).
FullGridCells(year, month, startOffset, daysInMonth, fill) ==
  [i \in 1..startOffset |->
     [date |-> formatDate(MkDate(year, month, 1 - startOffset + (i - 1))),
      inMonth |-> FALSE]]
  \o [d \in 1..daysInMonth |->
        [date |-> formatDate(MkDate(year, month, d)), inMonth |-> TRUE]]
  \o [d \in 1..fill |->
        [date |-> formatDate(MkDate(year, month + 1, d)), inMonth |-> FALSE]]

\* const remainder = cells.length % 7; fill = 7 - remainder if it is not 0.
FullGridFill(startOffset, daysInMonth) ==
  IF (startOffset + daysInMonth) % 7 # 0
  THEN 7 - ((startOffset + daysInMonth) % 7)
  ELSE 0

FullGridOf(year, month, startOffset, daysInMonth) ==
  FullGridCells(year, month, startOffset, daysInMonth,
                FullGridFill(startOffset, daysInMonth))

buildFullCalendarGrid(year, month) ==
  FullGridOf(year, month,
             (getDay(MkDate(year, month, 1)) + 6) % 7,
             getDate(MkDate(year, month + 1, 0)))

(***************************************************************************)
(* Bounds and inputs of the tracker model                                  *)
(***************************************************************************)

\* new Date() when the page is opened: Wednesday 1 April 2026, a month with
\* two bank holidays (3 and 6 April).
Now == MkDate(2026, 3, 1)
\* todayStr()
today == formatDate(Now)
\* The month the page opens on: new Date(now.getFullYear(), now.getMonth(), 1).
OpeningMonth == MkDate(getFullYear(Now), getMonth(Now), 1)

\* A run is followed for MaxOps user operations (gestures, button presses,
\* page visits); responses arrive at any time.
MaxOps == 4

\* The dates the user acts on: today and the day after it.
InputDates == {formatDate(Now), formatDate(Now + 1)}

\* The months navigation is followed to: the opening month and the next.
ViewMonths == {OpeningMonth, addMonths(OpeningMonth, 1)}
MonthKeys  == {MonthKeyOf(m) : m \in ViewMonths}

\* Values the requirement slider (min 0, max 100, step 5) is moved to.
ReqInputs == {60, 40}

\* The signed-in user (the page is rendered under ProtectedRoute).
Uid == "u1"

NoDoc == [absent |-> TRUE]
NoPress == [date |-> 0, has |-> FALSE]
NoCalc == [applied |-> FALSE]

\* new Map()
EmptyMap == [d \in {} |-> "excluded"]

\* The holidayLeave/{uid} document the tracker finds: one booked range, the
\* day after today (a Thursday) to the bank holiday that follows it.
LeaveDoc ==
  [availableDays |-> 25,
   entries |-> << [fromDate |-> formatDate(Now + 1), toDate |-> formatDate(Now + 2)] >>]

VARIABLES
  user,                \* useAuth().user: the uid, or "null"
  viewMonth,           \* Date: the 1st of the viewed month
  reqValue,            \* required percentage
  officeDays,          \* Set<string>
  excludedDays,        \* Map<string, ExclusionType>
  excludeWeekends,
  excludeBankHolidays,
  holidayLeaveDays,    \* Set<string>: the leave overlay
  press,               \* the pointer held on a calendar cell, its long-press timer armed
  loads,               \* getDocument('officeTracker', ...) calls in flight
  overlayLoad,         \* getDocument('holidayLeave', uid) in flight
  officeTrackerStore,  \* officeTracker/{uid}_{YYYY-MM}, by MonthKey
  holidayLeaveStore,   \* holidayLeave/{uid}
  calcOut,             \* result of applying the calculation (calculator specification)
  lastOp,              \* history: the handler that ran last
  ops,                 \* history: the number of user operations so far
  \* Leave page (Leave.tsx)
  availableDays,       \* number
  availableInput,      \* string: the text of the allowance input
  entries,             \* LeaveEntry[]
  saveStatus,          \* 'idle' | 'saving' | 'saved' | 'error'
  leaveLoad,           \* getDocument('holidayLeave', uid) of the Leave page in flight
  persists,            \* the setDocument calls of persist not yet settled, in call order
  saveStatusTimer,     \* the setTimeout timers of persist still armed
  nextId,              \* history: entry ids handed out so far
  \* AuthProvider.tsx
  authUser,            \* AuthProvider's user state, or NoUser
  currentUser,         \* auth.currentUser: the signed-in Firebase account, or NoUser
  usersStore,          \* users/{uid}, by uid
  lastWrite,           \* history: the arguments of the last setDocument call
  loading,             \* AuthProvider's loading state
  profileReads,        \* onAuthStateChanged callbacks awaiting getDocument('users', uid)
  \* Date utilities applied on their own
  fnIn,                \* the arguments
  fnOut                \* the results

leaveVars == << availableDays, availableInput, entries, saveStatus, leaveLoad,
                persists, saveStatusTimer, nextId >>

authVars == << authUser, currentUser, usersStore, lastWrite, loading, profileReads >>

datesVars == << fnIn, fnOut >>

vars == << user, viewMonth, reqValue, officeDays, excludedDays, excludeWeekends,
           excludeBankHolidays, holidayLeaveDays, press, loads, overlayLoad,
           officeTrackerStore, holidayLeaveStore, calcOut, lastOp, ops,
           leaveVars, authVars, datesVars >>

\* The tracker page's own state.
trackerVars == << viewMonth, reqValue, officeDays, excludedDays, excludeWeekends,
                  excludeBankHolidays, holidayLeaveDays, press, loads, overlayLoad,
                  officeTrackerStore, calcOut >>

pageVars == << viewMonth, reqValue, officeDays, excludedDays, excludeWeekends,
               excludeBankHolidays >>

monthKey == MonthKeyOf(viewMonth)

Op(name, d) == [op |-> name, date |-> d]

(***************************************************************************)
(* Map and Firestore helpers                                               *)
(***************************************************************************)

\* new Map(prev).set(k, v)
MapSet(m, k, v) == [x \in (DOMAIN m) \cup {k} |-> IF x = k THEN v ELSE m[x]]

\* const n = new Map(prev); n.delete(k)
MapDelete(m, k) == [x \in (DOMAIN m) \ {k} |-> m[x]]

\* Firestore's setDoc(ref, data, {merge: true}) on a map-valued field: the
\* keys given are written and the stored keys not given are kept; an empty
\* map given replaces the stored map.
MergeMapField(old, new) ==
  IF DOMAIN new = {}
  THEN new
  ELSE [k \in (DOMAIN old) \cup (DOMAIN new) |-> IF k \in DOMAIN new THEN new[k] ELSE old[k]]

\* setDocument(collection, id, data, merge): the document stored afterwards,
\* given the one stored before (updatedAt, which no reader uses, is left out).
setDocument(old, data, merge) ==
  IF ~merge \/ old = NoDoc
  THEN data
  ELSE [f \in (DOMAIN old) \cup (DOMAIN data) |->
          IF f \notin DOMAIN data THEN old[f]
          ELSE IF f = "excludedDays" /\ f \in DOMAIN old
               THEN MergeMapField(old[f], data[f])
               ELSE data[f]]

\* getDocument(collection, id): the stored document, or null (NoDoc).
getDocument(store, id) == store[id]

(***************************************************************************)
(* OfficeTracker.tsx: calendar cells                                       *)
(***************************************************************************)

\* A different order: an office mark is looked at before everything else.
DayStatusOfficeFirst(dateStr, rangeStartStr, rangeEndStr, exclWeekends, exclBankHolidays, excluded, office, leaveDays) ==
  IF dateStr < rangeStartStr \/ dateStr > rangeEndStr THEN "outside-range"
  ELSE IF dateStr \in office THEN "office"
  ELSE IF isWeekend(parseDate(dateStr)) /\ exclWeekends THEN "weekend"
  ELSE IF isBankHoliday(dateStr) /\ exclBankHolidays THEN "holiday"
  ELSE IF dateStr \in DOMAIN excluded /\ excluded[dateStr] = "holiday" THEN "holiday"
  ELSE IF dateStr \in DOMAIN excluded /\ excluded[dateStr] = "excluded" THEN "excluded"
  ELSE IF isBankHoliday(dateStr) THEN "holiday"
  ELSE IF dateStr \in leaveDays THEN "holiday"
  ELSE "home"

\* The body of getDayStatus, given the two ends of the viewed month.
DayStatusIn(dateStr, rangeStartStr, rangeEndStr, exclWeekends, exclBankHolidays, excluded, office, leaveDays) ==
  IF dateStr < rangeStartStr \/ dateStr > rangeEndStr THEN "outside-range"
  ELSE IF isWeekend(parseDate(dateStr)) /\ exclWeekends THEN "weekend"
  ELSE IF isBankHoliday(dateStr) /\ exclBankHolidays THEN "holiday"
  ELSE IF dateStr \in DOMAIN excluded /\ excluded[dateStr] = "holiday" THEN "holiday"
  ELSE IF dateStr \in DOMAIN excluded /\ excluded[dateStr] = "excluded" THEN "excluded"
  ELSE IF isBankHoliday(dateStr) /\ dateStr \notin office THEN "holiday"
  ELSE IF dateStr \in leaveDays /\ dateStr \notin office THEN "holiday"
  ELSE IF dateStr \in office THEN "office" ELSE "home"

\* getDayStatus(dateStr) of OfficeCalendar, in the viewed month.
getDayStatus(dateStr, vm, exclWeekends, exclBankHolidays, excluded, office, leaveDays) ==
  DayStatusIn(dateStr,
              formatDate(MkDate(getFullYear(vm), getMonth(vm), 1)),
              formatDate(MkDate(getFullYear(vm), getMonth(vm) + 1, 0)),
              exclWeekends, exclBankHolidays, excluded, office, leaveDays)

\* isInteractive(dateStr) of OfficeCalendar, in the viewed month.
isInteractive(dateStr, vm, exclWeekends, exclBankHolidays, leaveDays) ==
  LET rangeStartStr == formatDate(MkDate(getFullYear(vm), getMonth(vm), 1))
      rangeEndStr   == formatDate(MkDate(getFullYear(vm), getMonth(vm) + 1, 0))
  IN  IF dateStr < rangeStartStr \/ dateStr > rangeEndStr THEN FALSE
      ELSE IF isBankHoliday(dateStr) /\ exclBankHolidays THEN FALSE
      ELSE IF isWeekend(parseDate(dateStr)) /\ exclWeekends THEN FALSE
      ELSE IF dateStr \in leaveDays THEN FALSE
      ELSE TRUE

\* The cells OfficeCalendar renders with pointer handlers: the non-null
\* cells of getCalendarGrid for the viewed month.
GridDatesOf(vm) ==
  LET cells == getCalendarGrid(getFullYear(vm), getMonth(vm))
  IN  {cells[i] : i \in {j \in 1..Len(cells) : cells[j] # 0}}

\* The grid is the same at every render of a month: computed once per month.
GridTable == {<<vm, GridDatesOf(vm)>> : vm \in ViewMonths}
GridDates(vm) == (CHOOSE p \in GridTable : p[1] = vm)[2]

(***************************************************************************)
(* OfficeTracker.tsx: the handlers, as functions of the state they read    *)
(***************************************************************************)

\* A different handleDayTap: the early return after removing the exclusion is
\* left out, so the office mark is toggled as well.
handleDayTapTogglingExcluded(dateStr, office, excluded, workingDaySet) ==
  [officeDays |-> IF dateStr \in office THEN office \ {dateStr}
                                         ELSE office \cup {dateStr},
   excludedDays |-> MapDelete(excluded, dateStr)]

\* handleDayTap(dateStr)
handleDayTap(dateStr, office, excluded, workingDaySet) ==
  IF dateStr \in DOMAIN excluded
  THEN [officeDays |-> office, excludedDays |-> MapDelete(excluded, dateStr)]
  ELSE IF dateStr \notin workingDaySet /\ dateStr \notin office
  THEN [officeDays |-> office, excludedDays |-> excluded]
  ELSE [officeDays |-> IF dateStr \in office THEN office \ {dateStr}
                                               ELSE office \cup {dateStr},
        excludedDays |-> excluded]

\* handleDayLongPress(dateStr).  `has` is excludedDays.has(dateStr) of the
\* render whose handler the timer calls; the updaters act on the state
\* current when it fires.
handleDayLongPress(dateStr, has, office, excluded) ==
  IF has
  THEN [officeDays |-> office, excludedDays |-> MapDelete(excluded, dateStr)]
  ELSE [officeDays |-> office \ {dateStr},
        excludedDays |-> MapSet(excluded, dateStr, "excluded")]

\* A different addExcludedDay: the setOfficeDays call left out.
addExcludedDayKeepingOffice(dateStr, office, excluded) ==
  [officeDays |-> office, excludedDays |-> MapSet(excluded, dateStr, "excluded")]

\* addExcludedDay(dateStr)
addExcludedDay(dateStr, office, excluded) ==
  [officeDays |-> office \ {dateStr},
   excludedDays |-> MapSet(excluded, dateStr, "excluded")]

\* A different removeExcludedDay: the date goes back to the office days.
removeExcludedDayRestoring(dateStr, office, excluded) ==
  [officeDays |-> office \cup {dateStr}, excludedDays |-> MapDelete(excluded, dateStr)]

\* removeExcludedDay(dateStr)
removeExcludedDay(dateStr, office, excluded) ==
  [officeDays |-> office, excludedDays |-> MapDelete(excluded, dateStr)]

\* handleMarkToday()
handleMarkToday(todayKey, isTodayInView, office) ==
  IF ~isTodayInView THEN office
  ELSE IF todayKey \in office THEN office \ {todayKey}
  ELSE office \cup {todayKey}

\* The document handleSave passes to setDocument.
SaveData(uid, mk, req, exclWeekends, exclBankHolidays, office, excluded) ==
  [ userId              |-> uid,
    month               |-> mk,
    reqValue            |-> req,
    excludeWeekends     |-> exclWeekends,
    excludeBankHolidays |-> exclBankHolidays,
    officeDays          |-> office,
    excludedDays        |-> excluded ]

\* The .then of the month load: the page state after it, given the page
\* state before (cur) and the document read (data).
LoadThen(data, cur) ==
  IF data # NoDoc
  THEN [ reqValue            |-> IF "reqValue" \in DOMAIN data
                                 THEN data.reqValue ELSE cur.reqValue,
         excludeWeekends     |-> IF "excludeWeekends" \in DOMAIN data
                                 THEN data.excludeWeekends ELSE cur.excludeWeekends,
         excludeBankHolidays |-> IF "excludeBankHolidays" \in DOMAIN data
                                 THEN data.excludeBankHolidays ELSE cur.excludeBankHolidays,
         officeDays          |-> IF "officeDays" \in DOMAIN data
                                 THEN data.officeDays ELSE {},
         excludedDays        |-> IF "excludedDays" \in DOMAIN data
                                 THEN data.excludedDays ELSE EmptyMap ]
  ELSE [ reqValue            |-> cur.reqValue,
         excludeWeekends     |-> cur.excludeWeekends,
         excludeBankHolidays |-> cur.excludeBankHolidays,
         officeDays          |-> {},
         excludedDays        |-> EmptyMap ]

\* The leave overlay: the working days (no weekend, no bank holiday) of every
\* booked range.
RECURSIVE OverlayDays(_)
OverlayDays(booked) ==
  IF booked = <<>> THEN {}
  ELSE LET days == getDaysInRange(parseDate(Head(booked).fromDate),
                                  parseDate(Head(booked).toDate))
       IN  {formatDate(days[i]) :
              i \in {j \in 1..Len(days) :
                       ~isWeekend(days[j]) /\ ~isBankHoliday(formatDate(days[j]))}}
             \cup OverlayDays(Tail(booked))

OverlayThen(data) ==
  IF data = NoDoc \/ "entries" \notin DOMAIN data THEN {}
  ELSE OverlayDays(data.entries)

(***************************************************************************)
(* The OfficeTracker page as a state machine                               *)
(*                                                                         *)
(* A write is applied to the store when handleSave issues it (the client   *)
(* overlays its pending writes on every read), or fails and leaves the     *)
(* store as it was; the Save button's saving/saved indicator is not part   *)
(* of the state.  A read sees the store when its response is handled.      *)
(* A pointer gesture is a pointer-down on an interactive cell followed by  *)
(* the long-press timer, a pointer-up on the same cell, or the pointer     *)
(* leaving; while the pointer is held only responses can arrive.           *)
(***************************************************************************)

\* The other components as long as they are not mounted or used.
NoUser == [signedIn |-> FALSE]
NoWrite == [written |-> FALSE]
\* saveStatusTimer: whether the timer the ref points to is armed, and how many
\* armed timers the ref no longer points to.
NoTimer == [current |-> FALSE, stale |-> 0]
NoArgs == [fn |-> "none"]
NoResult == [fn |-> "none"]

LeaveUnmounted ==
  /\ availableDays = 25
  /\ availableInput = << "2", "5" >>
  /\ entries = << >>
  /\ saveStatus = "idle"
  /\ leaveLoad = FALSE
  /\ persists = << >>
  /\ saveStatusTimer = NoTimer
  /\ nextId = 0

AuthUnused ==
  /\ authUser = NoUser
  /\ currentUser = NoUser
  /\ usersStore = [u \in {Uid} |-> NoDoc]
  /\ lastWrite = NoWrite
  /\ loading = TRUE
  /\ profileReads = {}

DatesUnused == fnIn = NoArgs /\ fnOut = NoResult

CurCalc ==
  calc(viewMonth, reqValue, officeDays, excludedDays, excludeWeekends,
       excludeBankHolidays, holidayLeaveDays)

\* today >= calc.rangeStartStr && today <= calc.rangeEndStr
isTodayInView ==
  /\ today >= formatDate(dateRangeStart(viewMonth))
  /\ today <= formatDate(dateRangeEnd(viewMonth))

\* useState initial values, and the two load effects of the first render.
Init ==
  /\ user = Uid
  /\ viewMonth = OpeningMonth
  /\ reqValue = 60
  /\ officeDays = {}
  /\ excludedDays = EmptyMap
  /\ excludeWeekends = TRUE
  /\ excludeBankHolidays = TRUE
  /\ holidayLeaveDays = {}
  /\ press = NoPress
  /\ loads = {[month |-> MonthKeyOf(OpeningMonth),
               cancelled |-> FALSE]}
  /\ overlayLoad = TRUE
  /\ officeTrackerStore = [k \in MonthKeys |-> NoDoc]
  /\ holidayLeaveStore = LeaveDoc
  /\ calcOut = NoCalc
  /\ lastOp = Op("mount", 0)
  /\ ops = 0
  /\ LeaveUnmounted
  /\ AuthUnused
  /\ DatesUnused

\* handlePointerDown on a cell of the grid.
PointerDown(d) ==
  /\ press = NoPress
  /\ ops < MaxOps
  /\ ops' = ops + 1
  /\ d \in GridDates(viewMonth)
  /\ isInteractive(d, viewMonth, excludeWeekends, excludeBankHolidays, holidayLeaveDays)
  /\ press' = [date |-> d, has |-> d \in DOMAIN excludedDays]
  /\ lastOp' = Op("pointerDown", d)
  /\ UNCHANGED << user, pageVars, holidayLeaveDays, loads, overlayLoad,
                  officeTrackerStore, holidayLeaveStore, calcOut >>
  /\ UNCHANGED << leaveVars, authVars, datesVars >>

\* if (isInteractive(dateStr)) onDayTap(dateStr), r being what handleDayTap
\* makes of the state.
TapThen(d, r) ==
  IF isInteractive(d, viewMonth, excludeWeekends, excludeBankHolidays, holidayLeaveDays)
  THEN /\ officeDays' = r.officeDays
       /\ excludedDays' = r.excludedDays
       /\ lastOp' = Op("tap", d)
  ELSE /\ UNCHANGED << officeDays, excludedDays >>
       /\ lastOp' = Op("pointerUp", d)

\* handlePointerUp before the timer has fired: a tap, if the cell is still
\* interactive.
PointerUp ==
  /\ press # NoPress
  /\ TapThen(press.date,
             handleDayTap(press.date, officeDays, excludedDays, CurCalc.workingDaySet))
  /\ press' = NoPress
  /\ UNCHANGED << ops, user, viewMonth, reqValue, excludeWeekends, excludeBankHolidays,
                  holidayLeaveDays, loads, overlayLoad, officeTrackerStore,
                  holidayLeaveStore, calcOut >>
  /\ UNCHANGED << leaveVars, authVars, datesVars >>

\* The 500 ms timer of handlePointerDown fires: onDayLongPress(dateStr).
LongPressTimer ==
  /\ press # NoPress
  /\ LET r == handleDayLongPress(press.date, press.has, officeDays, excludedDays)
     IN  /\ officeDays' = r.officeDays
         /\ excludedDays' = r.excludedDays
  /\ lastOp' = Op(IF press.has THEN "longPressRemove" ELSE "longPressAdd", press.date)
  /\ press' = NoPress
  /\ UNCHANGED << ops, user, viewMonth, reqValue, excludeWeekends, excludeBankHolidays,
                  holidayLeaveDays, loads, overlayLoad, officeTrackerStore,
                  holidayLeaveStore, calcOut >>
  /\ UNCHANGED << leaveVars, authVars, datesVars >>

\* handlePointerLeave: the timer is cleared.
PointerLeave ==
  /\ press # NoPress
  /\ press' = NoPress
  /\ lastOp' = Op("pointerLeave", press.date)
  /\ UNCHANGED << ops, user, pageVars, holidayLeaveDays, loads, overlayLoad,
                  officeTrackerStore, holidayLeaveStore, calcOut >>
  /\ UNCHANGED << leaveVars, authVars, datesVars >>

\* ExclusionsCard.handleAdd with the date typed into the date input.
AddExcludedDay(d) ==
  /\ press = NoPress
  /\ ops < MaxOps
  /\ ops' = ops + 1
  /\ LET r == addExcludedDay(d, officeDays, excludedDays)
     IN  /\ officeDays' = r.officeDays
         /\ excludedDays' = r.excludedDays
  /\ lastOp' = Op("addExcludedDay", d)
  /\ UNCHANGED << user, viewMonth, reqValue, excludeWeekends, excludeBankHolidays,
                  holidayLeaveDays, press, loads, overlayLoad, officeTrackerStore,
                  holidayLeaveStore, calcOut >>
  /\ UNCHANGED << leaveVars, authVars, datesVars >>

\* The remove button of an entry of the exclusions list.
RemoveExcludedDay(d) ==
  /\ press = NoPress
  /\ ops < MaxOps
  /\ ops' = ops + 1
  /\ d \in DOMAIN excludedDays
  /\ LET r == removeExcludedDay(d, officeDays, excludedDays)
     IN  /\ officeDays' = r.officeDays
         /\ excludedDays' = r.excludedDays
  /\ lastOp' = Op("removeExcludedDay", d)
  /\ UNCHANGED << user, viewMonth, reqValue, excludeWeekends, excludeBankHolidays,
                  holidayLeaveDays, press, loads, overlayLoad, officeTrackerStore,
                  holidayLeaveStore, calcOut >>
  /\ UNCHANGED << leaveVars, authVars, datesVars >>

\* The Mark Today button (disabled unless today is in view).
MarkToday ==
  /\ press = NoPress
  /\ ops < MaxOps
  /\ ops' = ops + 1
  /\ isTodayInView
  /\ officeDays' = handleMarkToday(today, isTodayInView, officeDays)
  /\ lastOp' = Op("markToday", today)
  /\ UNCHANGED << user, viewMonth, reqValue, excludedDays, excludeWeekends,
                  excludeBankHolidays, holidayLeaveDays, press, loads, overlayLoad,
                  officeTrackerStore, holidayLeaveStore, calcOut >>
  /\ UNCHANGED << leaveVars, authVars, datesVars >>

\* The requirement slider: onValueChange = setReqValue.
SetReqValue(v) ==
  /\ press = NoPress
  /\ ops < MaxOps
  /\ ops' = ops + 1
  /\ v # reqValue
  /\ reqValue' = v
  /\ lastOp' = Op("setReqValue", 0)
  /\ UNCHANGED << user, viewMonth, officeDays, excludedDays, excludeWeekends,
                  excludeBankHolidays, holidayLeaveDays, press, loads, overlayLoad,
                  officeTrackerStore, holidayLeaveStore, calcOut >>
  /\ UNCHANGED << leaveVars, authVars, datesVars >>

\* The two automatic-exclusion toggles.
ToggleExcludeWeekends ==
  /\ press = NoPress
  /\ ops < MaxOps
  /\ ops' = ops + 1
  /\ excludeWeekends' = ~excludeWeekends
  /\ lastOp' = Op("toggleWeekends", 0)
  /\ UNCHANGED << user, viewMonth, reqValue, officeDays, excludedDays,
                  excludeBankHolidays, holidayLeaveDays, press, loads, overlayLoad,
                  officeTrackerStore, holidayLeaveStore, calcOut >>
  /\ UNCHANGED << leaveVars, authVars, datesVars >>

ToggleExcludeBankHolidays ==
  /\ press = NoPress
  /\ ops < MaxOps
  /\ ops' = ops + 1
  /\ excludeBankHolidays' = ~excludeBankHolidays
  /\ lastOp' = Op("toggleBankHolidays", 0)
  /\ UNCHANGED << user, viewMonth, reqValue, officeDays, excludedDays,
                  excludeWeekends, holidayLeaveDays, press, loads, overlayLoad,
                  officeTrackerStore, holidayLeaveStore, calcOut >>
  /\ UNCHANGED << leaveVars, authVars, datesVars >>

\* onPrevMonth / onNextMonth, and the load effect re-run for the new
\* monthKey: the previous run's cleanup sets its cancelled flag.
Navigate(delta) ==
  /\ press = NoPress
  /\ ops < MaxOps
  /\ ops' = ops + 1
  /\ addMonths(viewMonth, delta) \in ViewMonths
  /\ viewMonth' = addMonths(viewMonth, delta)
  /\ loads' = {[l EXCEPT !.cancelled = TRUE] : l \in loads}
                \cup {[month |-> MonthKeyOf(addMonths(viewMonth, delta)), cancelled |-> FALSE]}
  /\ lastOp' = Op("navigate", 0)
  /\ UNCHANGED << user, reqValue, officeDays, excludedDays, excludeWeekends,
                  excludeBankHolidays, holidayLeaveDays, press, overlayLoad,
                  officeTrackerStore, holidayLeaveStore, calcOut >>
  /\ UNCHANGED << leaveVars, authVars, datesVars >>

PrevMonth == Navigate(-1)
NextMonth == Navigate(1)

\* handleSave: setDocument with the default merge flag; the write succeeds
\* (ok) or is rejected and logged.
HandleSave(ok) ==
  /\ press = NoPress
  /\ ops < MaxOps
  /\ ops' = ops + 1
  /\ user # "null"
  /\ officeTrackerStore' =
       IF ok
       THEN [officeTrackerStore EXCEPT ![monthKey] =
               setDocument(@, SaveData(user, monthKey, reqValue, excludeWeekends,
                                       excludeBankHolidays, officeDays, excludedDays),
                           TRUE)]
       ELSE officeTrackerStore
  /\ lastOp' = Op(IF ok THEN "save" ELSE "saveFailed", 0)
  /\ UNCHANGED << user, pageVars, holidayLeaveDays, press, loads, overlayLoad,
                  holidayLeaveStore, calcOut >>
  /\ UNCHANGED << leaveVars, authVars, datesVars >>

\* A different effect: a response is applied whatever was viewed since.
IsDiscardedNever(l) == FALSE

\* if (cancelled) return: the effect's cleanup has run since the request.
IsDiscarded(l) == l.cancelled

\* The month load's promise resolves: nothing if its effect was cleaned up.
LoadResolve(l) ==
  /\ l \in loads
  /\ loads' = loads \ {l}
  /\ IF IsDiscarded(l)
     THEN /\ UNCHANGED << reqValue, officeDays, excludedDays, excludeWeekends,
                          excludeBankHolidays >>
          /\ lastOp' = Op("loadDiscarded", 0)
     ELSE LET r == LoadThen(getDocument(officeTrackerStore, l.month),
                            [reqValue |-> reqValue,
                             excludeWeekends |-> excludeWeekends,
                             excludeBankHolidays |-> excludeBankHolidays])
          IN  /\ reqValue' = r.reqValue
              /\ excludeWeekends' = r.excludeWeekends
              /\ excludeBankHolidays' = r.excludeBankHolidays
              /\ officeDays' = r.officeDays
              /\ excludedDays' = r.excludedDays
              /\ lastOp' = Op("load", 0)
  /\ UNCHANGED << ops, user, viewMonth, holidayLeaveDays, press, overlayLoad,
                  officeTrackerStore, holidayLeaveStore, calcOut >>
  /\ UNCHANGED << leaveVars, authVars, datesVars >>

\* The month load's promise rejects: .catch(console.error).
LoadReject(l) ==
  /\ l \in loads
  /\ loads' = loads \ {l}
  /\ lastOp' = Op("loadFailed", 0)
  /\ UNCHANGED << ops, user, pageVars, holidayLeaveDays, press, overlayLoad,
                  officeTrackerStore, holidayLeaveStore, calcOut >>
  /\ UNCHANGED << leaveVars, authVars, datesVars >>

\* The leave overlay's load resolves.
OverlayResolve ==
  /\ overlayLoad
  /\ overlayLoad' = FALSE
  /\ holidayLeaveDays' = OverlayThen(holidayLeaveStore)
  /\ lastOp' = Op("overlay", 0)
  /\ UNCHANGED << ops, user, pageVars, press, loads, officeTrackerStore,
                  holidayLeaveStore, calcOut >>
  /\ UNCHANGED << leaveVars, authVars, datesVars >>

\* The user leaves the page and opens it again: a new component instance
\* with the initial state; the old instance's effects are cleaned up.
Remount ==
  /\ press = NoPress
  /\ ops < MaxOps
  /\ ops' = ops + 1
  /\ lastOp.op # "mount"
  /\ viewMonth' = OpeningMonth
  /\ reqValue' = 60
  /\ officeDays' = {}
  /\ excludedDays' = EmptyMap
  /\ excludeWeekends' = TRUE
  /\ excludeBankHolidays' = TRUE
  /\ holidayLeaveDays' = {}
  /\ loads' = {[l EXCEPT !.cancelled = TRUE] : l \in loads}
                \cup {[month |-> MonthKeyOf(OpeningMonth),
                       cancelled |-> FALSE]}
  /\ overlayLoad' = TRUE
  /\ lastOp' = Op("mount", 0)
  /\ UNCHANGED << user, press, officeTrackerStore, holidayLeaveStore, calcOut >>
  /\ UNCHANGED << leaveVars, authVars, datesVars >>

Next ==
  \/ \E d \in InputDates : PointerDown(d)
  \/ PointerUp
  \/ LongPressTimer
  \/ PointerLeave
  \/ \E d \in InputDates : AddExcludedDay(d)
  \/ \E d \in InputDates : RemoveExcludedDay(d)
  \/ MarkToday
  \/ \E v \in ReqInputs : SetReqValue(v)
  \/ ToggleExcludeWeekends
  \/ ToggleExcludeBankHolidays
  \/ PrevMonth
  \/ NextMonth
  \/ \E ok \in BOOLEAN : HandleSave(ok)
  \/ \E l \in loads : LoadResolve(l)
  \/ \E l \in loads : LoadReject(l)
  \/ OverlayResolve
  \/ Remount

Spec == Init /\ [][Next]_vars

(***************************************************************************)
(* The calculation on its own: its inputs are drawn from bounded sets and  *)
(* one action applies calc (OfficeTracker) and officeCalc (Home) to them.  *)
(***************************************************************************)

\* The slider's range: min={0} max={100}.
ReqMin == 0
ReqMax == 100
\* The slider's step={5}: the percentages the page can be set to.
ReqStep == 5
SliderValues == {p \in ReqMin..ReqMax : p % ReqStep = 0}

\* Office marks are put on the first k days of the month, k up to MaxMarked.
MaxMarked == 17

\* February 2026 (28 days, no bank holiday) and April 2026 (30 days, Good
\* Friday on the 3rd and Easter Monday on the 6th).
CalcMonths == {MkDate(2026, 1, 1), MkDate(2026, 3, 1)}

DayOfMonth(vm, d) == formatDate(MkDate(getFullYear(vm), getMonth(vm), d))

MarkedDays(vm, k) == {DayOfMonth(vm, d) : d \in 1..k}

\* No manual exclusion, or the 3rd, 4th, 6th and 7th of the month excluded.
ExclusionInputs(vm) ==
  { EmptyMap,
    [d \in {DayOfMonth(vm, 3), DayOfMonth(vm, 4), DayOfMonth(vm, 6), DayOfMonth(vm, 7)}
       |-> "excluded"] }

\* No leave, or the overlay of a booking from the 6th to the 7th.
LeaveInputs(vm) ==
  { {}, OverlayDays(<< [fromDate |-> DayOfMonth(vm, 6), toDate |-> DayOfMonth(vm, 7)] >>) }

InitCalc ==
  /\ user = Uid
  /\ viewMonth \in CalcMonths
  /\ reqValue \in SliderValues
  /\ \E k \in 0..MaxMarked : officeDays = MarkedDays(viewMonth, k)
  /\ excludedDays \in ExclusionInputs(viewMonth)
  /\ excludeWeekends \in BOOLEAN
  /\ excludeBankHolidays \in BOOLEAN
  /\ holidayLeaveDays \in LeaveInputs(viewMonth)
  /\ press = NoPress
  /\ loads = {}
  /\ overlayLoad = FALSE
  /\ officeTrackerStore = [k \in MonthKeys |-> NoDoc]
  /\ holidayLeaveStore = NoDoc
  /\ calcOut = NoCalc
  /\ lastOp = Op("inputs", 0)
  /\ ops = 0
  /\ LeaveUnmounted
  /\ AuthUnused
  /\ DatesUnused

\* The two useMemo bodies run on the inputs.
ApplyCalc ==
  /\ calcOut = NoCalc
  /\ calcOut' =
       [ applied    |-> TRUE,
         calc       |-> calc(viewMonth, reqValue, officeDays, excludedDays,
                             excludeWeekends, excludeBankHolidays, holidayLeaveDays),
         officeCalc |-> officeCalc(viewMonth, reqValue, officeDays, excludedDays,
                                   excludeWeekends, excludeBankHolidays, holidayLeaveDays) ]
  /\ lastOp' = Op("calc", 0)
  /\ UNCHANGED << user, pageVars, holidayLeaveDays, press, loads, overlayLoad,
                  officeTrackerStore, holidayLeaveStore, ops >>
  /\ UNCHANGED << leaveVars, authVars, datesVars >>

NextCalc == ApplyCalc

SpecCalc == InitCalc /\ [][NextCalc]_vars

(***************************************************************************)
(* The other pages leave the tracker as it is: its state when none of its  *)
(* handlers runs                                                           *)
(***************************************************************************)

TrackerUnmounted ==
  /\ user = Uid
  /\ viewMonth = OpeningMonth
  /\ reqValue = 60
  /\ officeDays = {}
  /\ excludedDays = EmptyMap
  /\ excludeWeekends = TRUE
  /\ excludeBankHolidays = TRUE
  /\ holidayLeaveDays = {}
  /\ press = NoPress
  /\ loads = {}
  /\ overlayLoad = FALSE
  /\ officeTrackerStore = [k \in MonthKeys |-> NoDoc]
  /\ calcOut = NoCalc
  /\ ops = 0

\* What of the tracker and its history no other page touches.
trackerSide == << user, trackerVars, holidayLeaveStore, ops >>

(***************************************************************************)
(* AuthProvider.tsx: sign-in, registration and the users/{uid} profile.    *)
(* Strings stand for every field value: "undefined" and "null" are the     *)
(* JavaScript values of those names, "true" the boolean.                   *)
(***************************************************************************)

\* What the identity provider reports of the account (result.user).
ProviderEmails == {"ada@example.org", "null"}
ProviderNames  == {"Ada", "null"}
ProviderPhotos == {"https://example.org/ada.png", "null"}

\* A registration or password sign-in has an email address.
FormEmails == {"ada@example.org"}

\* auth.currentUser after a sign-in.
Account(uid, email, displayName, photoURL, providerId) ==
  [ signedIn    |-> TRUE,
    uid         |-> uid,
    email       |-> email,
    displayName |-> displayName,
    photoURL    |-> photoURL,
    providerId  |-> providerId ]

\* a || b
OrElse(a, b) == IF a \in {"null", "undefined", ""} THEN b ELSE a

\* profile?.f, profile.f: a field of a users document, of null, or a field
\* the document does not have.
Field(doc, f) == IF doc # NoDoc /\ f \in DOMAIN doc THEN doc[f] ELSE "undefined"

\* The object handed to setUser.
UserOf(email, uid, displayName, photoURL, signInMethod, company, role, country) ==
  [ signedIn     |-> TRUE,
    email        |-> email,
    uid          |-> uid,
    displayName  |-> displayName,
    photoURL     |-> photoURL,
    signInMethod |-> signInMethod,
    company      |-> company,
    role         |-> role,
    country      |-> country ]

\* Object.fromEntries(Object.entries(data).filter(([, v]) => v !== undefined));
\* also what a store that ignores undefined properties keeps of a record.
StripUndefined(data) ==
  [f \in {g \in DOMAIN data : data[g] # "undefined"} |-> data[f]]

\* The arguments of a setDocument call.
Write(collection, id, data, merge) ==
  [ written |-> TRUE, collection |-> collection, id |-> id, data |-> data,
    merge |-> merge ]

\* The users document after setDocument('users', uid, data, merge) settles:
\* written when the call succeeds, as it was when the call rejects.
UsersAfter(store, uid, data, merge, ok) ==
  IF ok
  THEN [store EXCEPT ![uid] = setDocument(@, StripUndefined(data), merge)]
  ELSE store

\* signInMethod of the onAuthStateChanged callback.
SignInMethodOf(providerId) ==
  IF providerId = "google.com" THEN "google"
  ELSE IF providerId = "microsoft.com" THEN "microsoft"
  ELSE IF providerId = "github.com" THEN "github"
  ELSE "email"

\* setUser of the onAuthStateChanged callback for a signed-in account, with
\* the profile read, or the fallback of its catch.
ListenerUser(fb, profile, readOk) ==
  IF readOk
  THEN UserOf(OrElse(fb.email, ""), fb.uid,
              OrElse(OrElse(Field(profile, "displayName"), fb.displayName), "undefined"),
              OrElse(OrElse(Field(profile, "photoURL"), fb.photoURL), "undefined"),
              SignInMethodOf(fb.providerId),
              Field(profile, "company"), Field(profile, "role"),
              Field(profile, "country"))
  ELSE UserOf(OrElse(fb.email, ""), fb.uid,
              OrElse(fb.displayName, "undefined"), OrElse(fb.photoURL, "undefined"),
              "undefined", "undefined", "undefined", "undefined")

\* The onAuthStateChanged callback, on mount and after a sign-in or sign-out,
\* its profile read settling at once.
AuthStateChanged(readOk) ==
  /\ authUser' = IF currentUser = NoUser
                 THEN NoUser
                 ELSE ListenerUser(currentUser, getDocument(usersStore, currentUser.uid),
                                   readOk)
  /\ loading' = FALSE
  /\ lastOp' = Op("authStateChanged", 0)
  /\ UNCHANGED << currentUser, usersStore, lastWrite >>
  /\ UNCHANGED << trackerSide, leaveVars, datesVars, profileReads >>

\* login(email, password), the sign-in succeeding.
Login(email) ==
  /\ currentUser' = Account(Uid, email, "null", "null", "password")
  /\ authUser' = UserOf(email, Uid, "undefined", "undefined", "undefined",
                        "undefined", "undefined", "undefined")
  /\ lastOp' = Op("login", 0)
  /\ UNCHANGED << usersStore, lastWrite >>
  /\ UNCHANGED << trackerSide, leaveVars, datesVars, loading, profileReads >>

\* The default profile document of register.
RegisterProfile(uid, email) ==
  [ uid |-> uid, email |-> email, role |-> "employee", isActive |-> "true" ]

\* register(email, password), the account creation succeeding; the profile
\* write settles (ok) or rejects.
Register(email, ok) ==
  /\ currentUser' = Account(Uid, email, "null", "null", "password")
  /\ lastWrite' = Write("users", Uid, RegisterProfile(Uid, email), FALSE)
  /\ usersStore' = UsersAfter(usersStore, Uid, RegisterProfile(Uid, email), FALSE, ok)
  /\ authUser' = IF ok
                 THEN UserOf(email, Uid, "undefined", "undefined", "undefined",
                             "undefined", "employee", "undefined")
                 ELSE authUser
  /\ lastOp' = Op(IF ok THEN "register" ELSE "registerFailed", 0)
  /\ UNCHANGED << trackerSide, leaveVars, datesVars, loading, profileReads >>

\* logout()
Logout ==
  /\ currentUser' = NoUser
  /\ authUser' = NoUser
  /\ lastOp' = Op("logout", 0)
  /\ UNCHANGED << usersStore, lastWrite >>
  /\ UNCHANGED << trackerSide, leaveVars, datesVars, loading, profileReads >>

\* newProfile of loginWithGoogle and loginWithGithub.
NewProfile(uid, email, displayName, photoURL) ==
  [ uid         |-> uid,
    email       |-> OrElse(email, ""),
    displayName |-> OrElse(displayName, "undefined"),
    photoURL    |-> OrElse(photoURL, "undefined"),
    role        |-> "employee",
    isActive    |-> "true" ]

\* The setUser that ends loginWithGoogle and loginWithGithub.
SocialUser(uid, email, displayName, photoURL, method, profile) ==
  UserOf(OrElse(email, ""), uid,
         OrElse(OrElse(Field(profile, "displayName"), displayName), "undefined"),
         OrElse(OrElse(Field(profile, "photoURL"), photoURL), "undefined"),
         method,
         Field(profile, "company"), Field(profile, "role"), Field(profile, "country"))

\* A different test: a default profile is written at every sign-in.
NeedsProfileAlways(profile) == TRUE

\* if (!profile)
NeedsProfile(profile) == profile = NoDoc

\* loginWithGoogle / loginWithGithub, the popup succeeding: the profile is
\* read; on a first sign-in it is created, and that write settles (ok) or
\* rejects.
LoginWithProvider(method, providerId, email, displayName, photoURL, ok) ==
  /\ currentUser' = Account(Uid, email, displayName, photoURL, providerId)
  /\ IF NeedsProfile(getDocument(usersStore, Uid))
     THEN /\ lastWrite' = Write("users", Uid,
                                NewProfile(Uid, email, displayName, photoURL), FALSE)
          /\ usersStore' = UsersAfter(usersStore, Uid,
                                      NewProfile(Uid, email, displayName, photoURL),
                                      FALSE, ok)
          /\ authUser' = IF ok
                         THEN SocialUser(Uid, email, displayName, photoURL, method,
                                         NewProfile(Uid, email, displayName, photoURL))
                         ELSE authUser
          /\ lastOp' = Op(IF ok THEN "socialFirstSignIn" ELSE "socialFailed", 0)
     ELSE /\ UNCHANGED << usersStore, lastWrite >>
          /\ authUser' = SocialUser(Uid, email, displayName, photoURL, method,
                                    getDocument(usersStore, Uid))
          /\ lastOp' = Op("socialSignIn", 0)
  /\ UNCHANGED << trackerSide, leaveVars, datesVars, loading, profileReads >>

loginWithGoogle ==
  \E e \in ProviderEmails, n \in ProviderNames, p \in ProviderPhotos, ok \in BOOLEAN :
    LoginWithProvider("google", "google.com", e, n, p, ok)

loginWithGithub ==
  \E e \in ProviderEmails, n \in ProviderNames, p \in ProviderPhotos, ok \in BOOLEAN :
    LoginWithProvider("github", "github.com", e, n, p, ok)

\* What the Profile page's form holds when Save is pressed.
FormNames     == {"", "Grace"}
FormCompanies == {"", "Acme"}
FormPhotos    == {"data:image/jpeg;base64"}

\* Profile.tsx handleSave: the argument of updateProfile.
ProfileForm(displayName, company, role, country, photoURL) ==
  [ displayName |-> displayName, company |-> company, role |-> role,
    country |-> country, photoURL |-> photoURL ]

\* {...user, ...clean}
Spread(u, clean) ==
  [f \in DOMAIN u |-> IF f \in DOMAIN clean THEN clean[f] ELSE u[f]]

\* updateProfile(data) with a user logged in; the write settles (ok) or rejects.
UpdateProfile(data, ok) ==
  /\ authUser # NoUser
  /\ lastWrite' = Write("users", authUser.uid, StripUndefined(data), TRUE)
  /\ usersStore' = UsersAfter(usersStore, authUser.uid, StripUndefined(data), TRUE, ok)
  /\ authUser' = IF ok THEN Spread(authUser, StripUndefined(data)) ELSE authUser
  /\ lastOp' = Op(IF ok THEN "updateProfile" ELSE "updateProfileFailed", 0)
  /\ UNCHANGED currentUser
  /\ UNCHANGED << trackerSide, leaveVars, datesVars, loading, profileReads >>

\* Save on the Profile page: the photo is the one of the user, or a new one.
ProfileSave ==
  \E n \in FormNames, c \in FormCompanies, ok \in BOOLEAN :
    \E p \in FormPhotos \cup {IF authUser = NoUser THEN "undefined" ELSE authUser.photoURL} :
      UpdateProfile(ProfileForm(n, c, "employee", "", p), ok)

InitAuth ==
  /\ TrackerUnmounted
  /\ holidayLeaveStore = NoDoc
  /\ lastOp = Op("mount", 0)
  /\ LeaveUnmounted
  /\ AuthUnused
  /\ DatesUnused

NextAuth ==
  \/ \E readOk \in BOOLEAN : AuthStateChanged(readOk)
  \/ \E e \in FormEmails : Login(e)
  \/ \E e \in FormEmails, ok \in BOOLEAN : Register(e, ok)
  \/ Logout
  \/ loginWithGoogle
  \/ loginWithGithub
  \/ ProfileSave

SpecAuth == InitAuth /\ [][NextAuth]_vars

(***************************************************************************)
(* The account's life: the listener of AuthProvider with its profile read  *)
(* in flight, deleteAccount, and the route guard.  The documents the user  *)
(* saved in earlier sessions are in the store when the application mounts. *)
(***************************************************************************)

\* ProtectedRoute: what it returns for the user and loading of the context.
ProtectedRoute(u, isLoading) ==
  IF isLoading THEN "loading"
  ELSE IF u = NoUser THEN "redirect"
  ELSE "children"

\* What a protected route of the application shows in the current state.
Rendered == ProtectedRoute(authUser, loading)

\* An officeTracker month saved earlier.
SavedMonth(mk) == SaveData(Uid, mk, 60, TRUE, TRUE, {mk * 100 + 1}, EmptyMap)

\* The onAuthStateChanged callback is invoked with auth.currentUser: signed
\* out, it sets the user and loading at once; signed in, it awaits the profile.
ListenerFires ==
  /\ IF currentUser = NoUser
     THEN /\ authUser' = NoUser
          /\ loading' = FALSE
          /\ UNCHANGED profileReads
     ELSE /\ profileReads' = profileReads \cup {currentUser}
          /\ UNCHANGED << authUser, loading >>
  /\ lastOp' = Op("listenerFires", 0)
  /\ UNCHANGED << currentUser, usersStore, lastWrite >>
  /\ UNCHANGED << trackerSide, leaveVars, datesVars >>

\* The getDocument of a callback settles (readOk) or rejects: setUser with
\* the profile or the fallback, then setLoading(false).
ProfileReadSettles(readOk) ==
  /\ \E fb \in profileReads :
       /\ profileReads' = profileReads \ {fb}
       /\ authUser' = ListenerUser(fb, getDocument(usersStore, fb.uid), readOk)
  /\ loading' = FALSE
  /\ lastOp' = Op("profileRead", 0)
  /\ UNCHANGED << currentUser, usersStore, lastWrite >>
  /\ UNCHANGED << trackerSide, leaveVars, datesVars >>

\* How a deleteAccount call ends.
DeleteOutcomes == {"deleted", "documentRejected", "accountRejected"}

\* deleteAccount(): throws without a user; deleteDocument('users', user.uid),
\* then deleteFirebaseUser(auth.currentUser), then setUser(null); either
\* await may reject, and what was done before it stays done.
DeleteAccount(outcome) ==
  /\ IF authUser = NoUser \/ currentUser = NoUser
     THEN /\ UNCHANGED << authUser, currentUser, usersStore >>
          /\ lastOp' = Op("deleteAccountFailed", 0)
     ELSE /\ usersStore' = IF outcome = "documentRejected"
                           THEN usersStore
                           ELSE [usersStore EXCEPT ![authUser.uid] = NoDoc]
          /\ currentUser' = IF outcome = "deleted" THEN NoUser ELSE currentUser
          /\ authUser' = IF outcome = "deleted" THEN NoUser ELSE authUser
          /\ lastOp' = Op(IF outcome = "deleted" THEN "deleteAccount"
                          ELSE "deleteAccountFailed", 0)
  /\ UNCHANGED << lastWrite, loading, profileReads >>
  /\ UNCHANGED << trackerSide, leaveVars, datesVars >>

\* Profile.tsx handleLogout: the Log Out button of the Profile page, a
\* protected page.
HandleLogout ==
  /\ Rendered = "children"
  /\ Logout

\* Profile.tsx handleDeleteAccount: Delete in the confirmation modal of the
\* Profile page.
HandleDeleteAccount(outcome) ==
  /\ Rendered = "children"
  /\ DeleteAccount(outcome)

InitAccount ==
  /\ user = Uid
  /\ viewMonth = OpeningMonth
  /\ reqValue = 60
  /\ officeDays = {}
  /\ excludedDays = EmptyMap
  /\ excludeWeekends = TRUE
  /\ excludeBankHolidays = TRUE
  /\ holidayLeaveDays = {}
  /\ press = NoPress
  /\ loads = {}
  /\ overlayLoad = FALSE
  /\ officeTrackerStore \in [MonthKeys -> {NoDoc}] \cup {[k \in MonthKeys |-> SavedMonth(k)]}
  /\ holidayLeaveStore \in {NoDoc, LeaveDoc}
  /\ calcOut = NoCalc
  /\ ops = 0
  /\ lastOp = Op("mount", 0)
  /\ LeaveUnmounted
  /\ authUser = NoUser
  /\ currentUser \in {NoUser} \cup {Account(Uid, e, "null", "null", "password") : e \in FormEmails}
  /\ usersStore \in {[u \in {Uid} |-> NoDoc]} \cup
                    {[u \in {Uid} |-> RegisterProfile(Uid, e)] : e \in FormEmails}
  /\ lastWrite = NoWrite
  /\ loading = TRUE
  /\ profileReads = {}
  /\ DatesUnused

NextAccount ==
  \/ ListenerFires
  \/ \E readOk \in BOOLEAN : ProfileReadSettles(readOk)
  \/ \E e \in FormEmails : Login(e)
  \/ \E e \in FormEmails, ok \in BOOLEAN : Register(e, ok)
  \/ HandleLogout
  \/ \E outcome \in DeleteOutcomes : HandleDeleteAccount(outcome)

SpecAccount == InitAccount /\ [][NextAccount]_vars

(***************************************************************************)
(* Leave.tsx: the Leave page.  A string is the sequence of its characters. *)
(***************************************************************************)

DigitChars == << "0", "1", "2", "3", "4", "5", "6", "7", "8", "9" >>
IsDigit(c) == \E i \in 1..10 : DigitChars[i] = c
DigitValue(c) == (CHOOSE i \in 1..10 : DigitChars[i] = c) - 1

\* The result of parseInt: NaN, or an integer.
NaN == [nan |-> TRUE, value |-> 0]
Parsed(n) == [nan |-> FALSE, value |-> n]

RECURSIVE SkipWhiteSpace(_)
SkipWhiteSpace(s) ==
  IF s # << >> /\ Head(s) = " " THEN SkipWhiteSpace(Tail(s)) ELSE s

\* The value of the longest prefix of digits, continuing from acc.
RECURSIVE DigitsValue(_, _)
DigitsValue(s, acc) ==
  IF s = << >> \/ ~IsDigit(Head(s))
  THEN acc
  ELSE DigitsValue(Tail(s), acc * 10 + DigitValue(Head(s)))

ParseDigits(s, sign) ==
  IF s = << >> \/ ~IsDigit(Head(s)) THEN NaN ELSE Parsed(sign * DigitsValue(s, 0))

ParseSigned(s) ==
  IF s # << >> /\ Head(s) = "-" THEN ParseDigits(Tail(s), -1)
  ELSE IF s # << >> /\ Head(s) = "+" THEN ParseDigits(Tail(s), 1)
  ELSE ParseDigits(s, 1)

\* parseInt(str, 10): leading white space, an optional sign, then the longest
\* prefix of decimal digits; NaN when there is no digit.
parseInt(str) == ParseSigned(SkipWhiteSpace(str))

\* String(n) of an integer.
RECURSIVE NatString(_)
NatString(n) ==
  IF n < 10 THEN << DigitChars[n + 1] >>
  ELSE NatString(n \div 10) \o << DigitChars[(n % 10) + 1] >>

StringOf(n) == IF n < 0 THEN << "-" >> \o NatString(-n) ELSE NatString(n)

\* Math.max(0, n)
MaxZero(n) == IF n > 0 THEN n ELSE 0

\* A different step: the allowance is not held at 0.
AvailableAfterStepUnclamped(available, delta) == available + delta

\* const v = Math.max(0, availableDays + delta)
AvailableAfterStep(available, delta) == MaxZero(available + delta)

\* const v = isNaN(parsed) ? availableDays : Math.max(0, parsed)
AvailableAfterBlur(available, parsed) ==
  IF parsed.nan THEN available ELSE MaxZero(parsed.value)

\* persist's sanitizedEntries: an entry without its note when the note is
\* undefined.
SanitizeEntry(e) ==
  IF "note" \in DOMAIN e /\ e.note # "undefined"
  THEN [id |-> e.id, fromDate |-> e.fromDate, toDate |-> e.toDate, note |-> e.note]
  ELSE [id |-> e.id, fromDate |-> e.fromDate, toDate |-> e.toDate]

\* The record persist hands to setDocument('holidayLeave', uid, ...).
LeaveRecord(newAvailable, newEntries) ==
  [ availableDays |-> newAvailable,
    entries       |-> [i \in 1..Len(newEntries) |-> SanitizeEntry(newEntries[i])] ]

\* persist(newAvailable, newEntries), up to the setDocument call: nothing
\* without a user; otherwise 'saving', the timer of the ref cleared, and the
\* write in flight.
Persist(newAvailable, newEntries) ==
  IF user = "null"
  THEN UNCHANGED << saveStatus, saveStatusTimer, persists >>
  ELSE /\ saveStatus' = "saving"
       /\ saveStatusTimer' = [saveStatusTimer EXCEPT !.current = FALSE]
       /\ persists' = Append(persists, LeaveRecord(newAvailable, newEntries))

\* buildLeaveDaysSet(entries)
LeaveDaysOfEntry(days) ==
  {formatDate(days[i]) :
     i \in {j \in 1..Len(days) : ~isWeekend(days[j]) /\ ~isBankHoliday(formatDate(days[j]))}}

buildLeaveDaysSet(list) ==
  UNION {LeaveDaysOfEntry(getDaysInRange(parseDate(list[i].fromDate),
                                          parseDate(list[i].toDate))) :
           i \in 1..Len(list)}

\* usedDays: the sum of countWorkingDays over the entries, from index i on.
RECURSIVE UsedDaysFrom(_, _)
UsedDaysFrom(list, i) ==
  IF i > Len(list) THEN 0
  ELSE countWorkingDays(list[i].fromDate, list[i].toDate) + UsedDaysFrom(list, i + 1)

usedDays == UsedDaysFrom(entries, 1)

\* What the other pages and the history leave alone while the Leave page runs.
leaveSide == << user, trackerVars, authVars, datesVars >>

\* The bound of the Leave page's model: user operations per behaviour.
MaxLeaveOps == 3

LeaveOp(name, d) ==
  /\ ops < MaxLeaveOps
  /\ ops' = ops + 1
  /\ lastOp' = Op(name, d)

\* What is typed into the allowance input: nothing, letters, a negative
\* number, digits followed by letters.
InputTexts ==
  { << >>, << "a", "b", "c" >>, << "-", "3" >>, << "1", "2", "a" >> }

\* Dates tapped on the leave calendar, and what is entered in the Add Holiday
\* sheet: a range over Easter with a note, the same range backwards, a
\* weekend.
LeaveTapDates == {20260401, 20260402}
SheetInputs ==
  { << 20260402, 20260407, "Easter" >>, << 20260407, 20260402, "" >>,
    << 20260404, 20260405, "" >> }

\* The documents holidayLeave/{uid} may hold when the page is opened: none,
\* one without an allowance, one with an allowance and a booking.
StoredLeaveDocs ==
  { NoDoc,
    [ entries |-> << >> ],
    [ availableDays |-> 1,
      entries |-> << [id |-> 0, fromDate |-> 20260402, toDate |-> 20260407] >> ] }

\* handleAvailableStep(delta)
HandleAvailableStep(delta) ==
  /\ LeaveOp("availableStep", delta)
  /\ availableDays' = AvailableAfterStep(availableDays, delta)
  /\ availableInput' = StringOf(AvailableAfterStep(availableDays, delta))
  /\ Persist(AvailableAfterStep(availableDays, delta), entries)
  /\ UNCHANGED << entries, leaveLoad, nextId, holidayLeaveStore, leaveSide >>

\* onChange of the allowance input: setAvailableInput(e.target.value)
ChangeAvailableInput(text) ==
  /\ LeaveOp("availableInput", 0)
  /\ availableInput' = text
  /\ UNCHANGED << availableDays, entries, saveStatus, leaveLoad, persists,
                  saveStatusTimer, nextId, holidayLeaveStore, leaveSide >>

\* handleAvailableBlur, on blur or Enter
BlurThen(v) ==
  /\ availableDays' = v
  /\ availableInput' = StringOf(v)
  /\ Persist(v, entries)

HandleAvailableBlur ==
  /\ LeaveOp("availableBlur", 0)
  /\ BlurThen(AvailableAfterBlur(availableDays, parseInt(availableInput)))
  /\ UNCHANGED << entries, leaveLoad, nextId, holidayLeaveStore, leaveSide >>

\* handleAddLeave(entry): the entry gets a fresh id and is appended.
AddLeaveThen(newEntries) ==
  /\ entries' = newEntries
  /\ nextId' = nextId + 1
  /\ Persist(availableDays, newEntries)

\* handleDeleteEntry(id)
DeleteEntryThen(newEntries) ==
  /\ entries' = newEntries
  /\ nextId' = nextId
  /\ Persist(availableDays, newEntries)

WithoutId(list, id) == SelectSeq(list, LAMBDA e : e.id # id)

HandleDeleteEntry(id) ==
  /\ LeaveOp("deleteEntry", id)
  /\ DeleteEntryThen(WithoutId(entries, id))
  /\ UNCHANGED << availableDays, availableInput, leaveLoad, holidayLeaveStore, leaveSide >>

\* note.trim() || undefined, for the notes entered here
NoteOf(note) == IF note = "" THEN "undefined" ELSE note

\* A different test: the order of the two dates only.
canSubmitOrderOnly(fromDate, toDate) == toDate >= fromDate

\* AddLeaveSheet: canSubmit
canSubmit(fromDate, toDate) ==
  toDate >= fromDate /\ countWorkingDays(fromDate, toDate) > 0

\* handleSubmit of the sheet: onAdd({fromDate, toDate, note}) if canSubmit.
SheetSubmit(fromDate, toDate, note) ==
  /\ IF canSubmit(fromDate, toDate)
     THEN /\ LeaveOp("addLeave", fromDate)
          /\ AddLeaveThen(Append(entries,
                                 [id |-> nextId + 1, fromDate |-> fromDate,
                                  toDate |-> toDate, note |-> NoteOf(note)]))
     ELSE /\ LeaveOp("submitIgnored", fromDate)
          /\ UNCHANGED << entries, nextId, saveStatus, saveStatusTimer, persists >>
  /\ UNCHANGED << availableDays, availableInput, leaveLoad, holidayLeaveStore, leaveSide >>

\* The entries whose range is the one day dateStr.
SingleDayIds(list, dateStr) ==
  {list[i].id : i \in {j \in 1..Len(list) :
                         list[j].fromDate = dateStr /\ list[j].toDate = dateStr}}

\* entries.find(...): the first such entry.
FirstSingleDayId(list, dateStr) ==
  list[CHOOSE i \in 1..Len(list) :
         /\ list[i].fromDate = dateStr /\ list[i].toDate = dateStr
         /\ \A j \in 1..(i - 1) : ~(list[j].fromDate = dateStr /\ list[j].toDate = dateStr)].id

\* A different handler: a date inside a longer booking is treated as free.
TapBranchIgnoringRanges(list, dateStr) ==
  IF SingleDayIds(list, dateStr) # {} THEN "delete" ELSE "add"

\* The branch handleDayTap takes: a single-day entry is toggled off, a date
\* of a longer booking is left alone, any other date is added.
TapBranch(list, dateStr) ==
  IF SingleDayIds(list, dateStr) # {} THEN "delete"
  ELSE IF dateStr \in buildLeaveDaysSet(list) THEN "none"
  ELSE "add"

\* The entries handleDayTap passes to setEntries, newId being the id of a new
\* entry.
EntriesAfterTap(list, dateStr, newId) ==
  IF TapBranch(list, dateStr) = "delete"
  THEN WithoutId(list, FirstSingleDayId(list, dateStr))
  ELSE IF TapBranch(list, dateStr) = "none" THEN list
  ELSE Append(list, [id |-> newId, fromDate |-> dateStr, toDate |-> dateStr])

\* handleDayTap(dateStr) of the Leave page, on an interactive cell.
LeaveDayTap(dateStr) ==
  /\ ~isWeekend(parseDate(dateStr)) /\ ~isBankHoliday(dateStr)
  /\ LeaveOp("leaveTap", dateStr)
  /\ IF TapBranch(entries, dateStr) = "delete"
     THEN DeleteEntryThen(EntriesAfterTap(entries, dateStr, nextId + 1))
     ELSE IF TapBranch(entries, dateStr) = "none"
     THEN UNCHANGED << entries, nextId, saveStatus, saveStatusTimer, persists >>
     ELSE AddLeaveThen(EntriesAfterTap(entries, dateStr, nextId + 1))
  /\ UNCHANGED << availableDays, availableInput, leaveLoad, holidayLeaveStore, leaveSide >>

\* The load effect's .then: the stored allowance (25 if the document has
\* none) and entries (none if the document has none); nothing without a
\* document.
LeaveLoadThen(data) ==
  IF data # NoDoc
  THEN /\ availableDays' = IF "availableDays" \in DOMAIN data THEN data.availableDays ELSE 25
       /\ availableInput' = StringOf(IF "availableDays" \in DOMAIN data
                                     THEN data.availableDays ELSE 25)
       /\ entries' = IF "entries" \in DOMAIN data THEN data.entries ELSE << >>
  ELSE UNCHANGED << availableDays, availableInput, entries >>

LeaveLoadResolve ==
  /\ leaveLoad
  /\ leaveLoad' = FALSE
  /\ LeaveLoadThen(getDocument([u \in {user} |-> holidayLeaveStore], user))
  /\ lastOp' = Op("leaveLoad", 0)
  /\ UNCHANGED << saveStatus, persists, saveStatusTimer, nextId, holidayLeaveStore,
                  ops, leaveSide >>

\* .catch(console.error)
LeaveLoadReject ==
  /\ leaveLoad
  /\ leaveLoad' = FALSE
  /\ lastOp' = Op("leaveLoadFailed", 0)
  /\ UNCHANGED << availableDays, availableInput, entries, saveStatus, persists,
                  saveStatusTimer, nextId, holidayLeaveStore, ops, leaveSide >>

\* Remove the i-th element of a sequence.
RemoveAt(seq, i) == SubSeq(seq, 1, i - 1) \o SubSeq(seq, i + 1, Len(seq))

\* A timer is armed and kept in the ref: the one the ref pointed to, if still
\* armed, goes on running.
ArmTimer(t) ==
  [current |-> TRUE, stale |-> t.stale + (IF t.current THEN 1 ELSE 0)]

\* The i-th setDocument call in flight settles: .then ('saved', idle after
\* 2 s) or .catch ('error', idle after 4 s).
PersistSettle(i, ok) ==
  /\ i \in 1..Len(persists)
  /\ persists' = RemoveAt(persists, i)
  /\ holidayLeaveStore' = IF ok THEN setDocument(holidayLeaveStore, persists[i], TRUE)
                                ELSE holidayLeaveStore
  /\ saveStatus' = IF ok THEN "saved" ELSE "error"
  /\ saveStatusTimer' = ArmTimer(saveStatusTimer)
  /\ lastOp' = Op(IF ok THEN "persisted" ELSE "persistFailed", 0)
  /\ UNCHANGED << availableDays, availableInput, entries, leaveLoad, nextId, ops,
                  leaveSide >>

\* An armed timer fires: setSaveStatus('idle').
SaveStatusTimerFires(current) ==
  /\ IF current THEN saveStatusTimer.current ELSE saveStatusTimer.stale > 0
  /\ saveStatusTimer' = IF current
                        THEN [saveStatusTimer EXCEPT !.current = FALSE]
                        ELSE [saveStatusTimer EXCEPT !.stale = @ - 1]
  /\ saveStatus' = "idle"
  /\ lastOp' = Op("saveStatusTimer", 0)
  /\ UNCHANGED << availableDays, availableInput, entries, leaveLoad, persists, nextId,
                  holidayLeaveStore, ops, leaveSide >>

\* useState initial values and the load effect of the first render.
InitLeave ==
  /\ TrackerUnmounted
  /\ holidayLeaveStore \in StoredLeaveDocs
  /\ lastOp = Op("mount", 0)
  /\ availableDays = 25
  /\ availableInput = << "2", "5" >>
  /\ entries = << >>
  /\ saveStatus = "idle"
  /\ leaveLoad = TRUE
  /\ persists = << >>
  /\ saveStatusTimer = NoTimer
  /\ nextId = 0
  /\ AuthUnused
  /\ DatesUnused

NextLeave ==
  \/ \E delta \in {-1, 1} : HandleAvailableStep(delta)
  \/ \E text \in InputTexts : ChangeAvailableInput(text)
  \/ HandleAvailableBlur
  \/ \E r \in SheetInputs : SheetSubmit(r[1], r[2], r[3])
  \/ \E i \in 1..Len(entries) : HandleDeleteEntry(entries[i].id)
  \/ \E d \in LeaveTapDates : LeaveDayTap(d)
  \/ LeaveLoadResolve
  \/ LeaveLoadReject
  \/ \E i \in 1..Len(persists), ok \in BOOLEAN : PersistSettle(i, ok)
  \/ \E current \in BOOLEAN : SaveStatusTimerFires(current)

SpecLeave == InitLeave /\ [][NextLeave]_vars

(***************************************************************************)
(* The date helpers on their own: each is applied to arguments drawn from  *)
(* bounded sets, whatever the tracker's toggles are                        *)
(***************************************************************************)

\* Dates the ranges start and end at: the turn of the year, a plain week of
\* February 2026, the turn of February, and the days around Easter 2026 (Good
\* Friday 3 April, Easter Monday 6 April).
RangeDates ==
  {20251230, 20260102, 20260226, 20260302,
   20260202, 20260203, 20260204, 20260205, 20260206, 20260207, 20260208,
   20260401, 20260402, 20260403, 20260404, 20260405, 20260406, 20260407, 20260408}

\* The longest range walked, in days from start to end.
MaxRangeDays == 10

RangePairs ==
  {p \in RangeDates \X RangeDates : parseDate(p[2]) - parseDate(p[1]) <= MaxRangeDays}

GridYears  == {2025, 2026}
GridMonths == 0..11

InitDates ==
  /\ TrackerUnmounted
  /\ holidayLeaveStore = NoDoc
  /\ lastOp = Op("none", 0)
  /\ LeaveUnmounted
  /\ AuthUnused
  /\ DatesUnused

\* What no date helper touches.
DatesFrame ==
  UNCHANGED << user, viewMonth, reqValue, officeDays, excludedDays, holidayLeaveDays,
               press, loads, overlayLoad, officeTrackerStore, holidayLeaveStore,
               calcOut, lastOp, ops, leaveVars, authVars >>

\* Each helper is applied once, to arguments of the bounded sets.
CallCountWorkingDays(fromDate, toDate) ==
  /\ fnIn = NoArgs
  /\ fnIn' = [fn |-> "countWorkingDays", fromDate |-> fromDate, toDate |-> toDate]
  /\ fnOut' = [fn |-> "countWorkingDays", count |-> countWorkingDays(fromDate, toDate)]
  /\ UNCHANGED << excludeWeekends, excludeBankHolidays >>
  /\ DatesFrame

CallGetDaysInRange(start, end) ==
  /\ fnIn = NoArgs
  /\ fnIn' = [fn |-> "getDaysInRange", start |-> start, end |-> end]
  /\ fnOut' = [fn |-> "getDaysInRange", days |-> getDaysInRange(start, end)]
  /\ UNCHANGED << excludeWeekends, excludeBankHolidays >>
  /\ DatesFrame

CallGetCalendarGrid(year, month) ==
  /\ fnIn = NoArgs
  /\ fnIn' = [fn |-> "getCalendarGrid", year |-> year, month |-> month]
  /\ fnOut' = [fn |-> "getCalendarGrid", cells |-> getCalendarGrid(year, month)]
  /\ UNCHANGED << excludeWeekends, excludeBankHolidays >>
  /\ DatesFrame

CallBuildFullCalendarGrid(year, month) ==
  /\ fnIn = NoArgs
  /\ fnIn' = [fn |-> "buildFullCalendarGrid", year |-> year, month |-> month]
  /\ fnOut' = [fn |-> "buildFullCalendarGrid", cells |-> buildFullCalendarGrid(year, month)]
  /\ UNCHANGED << excludeWeekends, excludeBankHolidays >>
  /\ DatesFrame

\* The tracker's exclusion toggles are switched beforehand: no date helper
\* reads them.
SwitchToggles(w, b) ==
  /\ fnIn = NoArgs
  /\ excludeWeekends' = w
  /\ excludeBankHolidays' = b
  /\ UNCHANGED datesVars
  /\ DatesFrame

NextDates ==
  \/ \E p \in RangePairs : CallCountWorkingDays(p[1], p[2])
  \/ \E p \in RangePairs : CallGetDaysInRange(parseDate(p[1]), parseDate(p[2]))
  \/ \E y \in GridYears, m \in GridMonths : CallGetCalendarGrid(y, m)
  \/ \E y \in GridYears, m \in GridMonths : CallBuildFullCalendarGrid(y, m)
  \/ \E w \in BOOLEAN, b \in BOOLEAN : SwitchToggles(w, b)

SpecDates == InitDates /\ [][NextDates]_vars

(***************************************************************************)
(* The buckets of the viewed month, as the order of the rules defines them *)
(***************************************************************************)

\* The dates of the viewed month.
MonthDates == dateRangeStart(viewMonth)..dateRangeEnd(viewMonth)

\* The five buckets as the precedence of the rules defines them.
WeekendDates  == {d \in MonthDates : excludeWeekends /\ getDay(d) \in {0, 6}}
BankDates     == {d \in MonthDates \ WeekendDates :
                    excludeBankHolidays /\ formatDate(d) \in BANK_HOLIDAYS}
ManualDates   == {d \in MonthDates \ (WeekendDates \cup BankDates) :
                    formatDate(d) \in DOMAIN excludedDays}
LeaveDates    == {d \in MonthDates \ (WeekendDates \cup BankDates \cup ManualDates) :
                    formatDate(d) \in holidayLeaveDays}
WorkingDates  == MonthDates \ (WeekendDates \cup BankDates \cup ManualDates \cup LeaveDates)

(***************************************************************************)
(* Properties of the page (checked under Spec)                             *)
(***************************************************************************)

\* C1: after any sequence of the mutation operations (tap, long-press,
\* addExcludedDay, removeExcludedDay, Mark Today, a month load), starting
\* from empty sets, no date is both a member of officeDays and a key of
\* excludedDays.
C1_OfficeAndExcludedDisjoint ==
  \A d \in officeDays : d \notin DOMAIN excludedDays

\* What a save of the page's state followed by a load of the same month's
\* document would put on the page.
SaveThenReload ==
  LoadThen(setDocument(getDocument(officeTrackerStore, monthKey),
                       SaveData(user, monthKey, reqValue, excludeWeekends,
                                excludeBankHolidays, officeDays, excludedDays),
                       TRUE),
           [reqValue |-> reqValue, excludeWeekends |-> excludeWeekends,
            excludeBankHolidays |-> excludeBankHolidays])

\* C2: in every state the page reaches, handleSave (setDocument with its
\* default merge flag) followed by a reload of the same month's document
\* reproduces officeDays, excludedDays, reqValue and both toggles.
C2_SaveReloadRoundTrip ==
  /\ SaveThenReload.officeDays = officeDays
  /\ SaveThenReload.excludedDays = excludedDays
  /\ SaveThenReload.reqValue = reqValue
  /\ SaveThenReload.excludeWeekends = excludeWeekends
  /\ SaveThenReload.excludeBankHolidays = excludeBankHolidays

\* C9: right after an exclusion is added for a date (addExcludedDay, or a
\* long-press on a date without exclusion) the date is a key of excludedDays
\* with kind 'excluded' and is not in officeDays: no state shows the date
\* newly excluded and still office-marked.
C9_AddExclusionClearsOffice ==
  lastOp.op \in {"addExcludedDay", "longPressAdd"} =>
    /\ lastOp.date \in DOMAIN excludedDays
    /\ excludedDays[lastOp.date] = "excluded"
    /\ lastOp.date \notin officeDays

\* An exclusion has just been added for one date while another date keeps
\* its office mark.
C9_Witness ==
  /\ lastOp.op \in {"addExcludedDay", "longPressAdd"}
  /\ lastOp.date \in DOMAIN excludedDays
  /\ officeDays # {}

\* The step is removeExcludedDay, a long-press on an excluded date, or a
\* tap on an excluded date.
IsRemoveExclusionStep ==
  \/ ops' = ops + 1 /\ lastOp'.op = "removeExcludedDay"
  \/ press # NoPress /\ press' = NoPress /\ lastOp'.op = "longPressRemove"
  \/ /\ press # NoPress /\ press' = NoPress /\ lastOp'.op = "tap"
     /\ press.date \in DOMAIN excludedDays

\* C10: removing an exclusion (removeExcludedDay, a long-press on an excluded
\* date, or a tap on an excluded date) deletes that date's entry from
\* excludedDays and nothing else, and leaves officeDays as it was: the date
\* is not put back into officeDays.
C10_RemoveExclusionFrame ==
  [][IsRemoveExclusionStep =>
       /\ excludedDays' = MapDelete(excludedDays, lastOp'.date)
       /\ officeDays' = officeDays]_vars

\* An exclusion has just been removed with removeExcludedDay; the date is
\* neither excluded nor office-marked, and another date is office-marked.
C10_Witness ==
  /\ lastOp.op = "removeExcludedDay"
  /\ lastOp.date \notin DOMAIN excludedDays
  /\ lastOp.date \notin officeDays
  /\ officeDays # {}

\* The step is a tap that reaches handleDayTap.
IsTapStep == press # NoPress /\ press' = NoPress /\ lastOp'.op = "tap"

\* The tapped date is in the working-day pool of the viewed month.
TappedInPool == \E d \in WorkingDates : formatDate(d) = press.date

\* C11: a tap on a date that has an exclusion removes the exclusion and
\* leaves the office marks alone; a tap on a date without exclusion toggles
\* the date in officeDays if the date is in the working-day pool or already
\* office-marked, and changes nothing otherwise.
C11_TapSemantics ==
  [][IsTapStep =>
       IF press.date \in DOMAIN excludedDays
       THEN /\ excludedDays' = MapDelete(excludedDays, press.date)
            /\ officeDays' = officeDays
       ELSE IF TappedInPool \/ press.date \in officeDays
       THEN /\ excludedDays' = excludedDays
            /\ officeDays' = IF press.date \in officeDays
                              THEN officeDays \ {press.date}
                              ELSE officeDays \cup {press.date}
       ELSE /\ excludedDays' = excludedDays
            /\ officeDays' = officeDays]_vars

\* A tap has just acted on a date: the date carries an office mark and no
\* exclusion, next to an exclusion on another date.
C11_Witness ==
  /\ lastOp.op = "tap"
  /\ lastOp.date \in officeDays
  /\ lastOp.date \notin DOMAIN excludedDays
  /\ DOMAIN excludedDays # {}

\* A step in which the month load l resolves, is not discarded, and finds no
\* document for its month.
IsAbsentLoadStep(l) ==
  /\ ~l.cancelled
  /\ loads' = loads \ {l}
  /\ lastOp'.op = "load"
  /\ getDocument(officeTrackerStore, l.month) = NoDoc

\* C12: when the month's document is absent, the load leaves the page in the
\* default configuration: requirement 60, both toggles on, no office day and
\* no exclusion, whatever was on the page before.
C12_AbsentMonthLoadsDefaults ==
  [][\A l \in loads :
       IsAbsentLoadStep(l) =>
         /\ reqValue' = 60
         /\ excludeWeekends'
         /\ excludeBankHolidays'
         /\ officeDays' = {}
         /\ excludedDays' = EmptyMap]_vars

\* A DateKey of the viewed month.
InViewedMonth(ds) == ds \div 100 = monthKey

\* The office marks and manual exclusions on dates outside the viewed month.
OutsideMarks == {ds \in officeDays \cup DOMAIN excludedDays : ~InViewedMonth(ds)}

\* The calculation of the viewed month without them.
CalcWithoutOutsideMarks ==
  calc(viewMonth, reqValue,
       {ds \in officeDays : InViewedMonth(ds)},
       [ds \in {k \in DOMAIN excludedDays : InViewedMonth(k)} |-> excludedDays[ds]],
       excludeWeekends, excludeBankHolidays, holidayLeaveDays)

SameCalculation(a, b) ==
  /\ a.workingDays = b.workingDays
  /\ a.requiredOfficeDays = b.requiredOfficeDays
  /\ a.selectedOfficeDays = b.selectedOfficeDays
  /\ a.manualExcludedCount = b.manualExcludedCount
  /\ a.progressPercentage = b.progressPercentage
  /\ a.complianceStatus = b.complianceStatus

\* C14: office marks and manual exclusions on dates outside the viewed month
\* have no effect on its calculation: working days, required and selected
\* office days, the manual-exclusion count, progress and status are the same
\* with and without them.
C14_OutsideMarksHaveNoEffect ==
  OutsideMarks # {} => SameCalculation(CurCalc, CalcWithoutOutsideMarks)

\* The page shows a month while an office mark and a manual exclusion of
\* another month are still in its state.
C14_Witness ==
  /\ \E ds \in officeDays : ~InViewedMonth(ds)
  /\ \E ds \in DOMAIN excludedDays : ~InViewedMonth(ds)

\* The month a DateKey belongs to.
MonthOfKey(ds) == ds \div 100

\* C26: whatever the order of navigation, month load and Save, the office
\* days handleSave writes under the key of a month are days of that month,
\* never the selection of another month.  (A date typed into the exclusions
\* sheet may be of any month, so the exclusions are not compared.)
C26_SaveWritesOwnMonth ==
  [][lastOp'.op = "save" =>
       \A d \in officeTrackerStore'[monthKey'].officeDays : MonthOfKey(d) = monthKey']_vars

\* What the document of the viewed month gives when it is loaded.
LoadedForViewedMonth ==
  LoadThen(getDocument(officeTrackerStore, monthKey),
           [reqValue |-> reqValue, excludeWeekends |-> excludeWeekends,
            excludeBankHolidays |-> excludeBankHolidays])

\* The response that arrives in this step.
Arrived == loads \ loads'

\* C27: a response for a month that is no longer viewed changes none of
\* officeDays, excludedDays, reqValue and the toggles; the only response
\* applied is the one for the viewed month, which gives the state loaded
\* for that month, in whatever order the responses arrive.
C27_StaleLoadsAreDiscarded ==
  [][/\ \A l \in loads' : ~l.cancelled => l.month = monthKey'
     /\ lastOp'.op \in {"load", "loadDiscarded"} =>
          \A l \in Arrived :
            /\ (l.cancelled \/ l.month # monthKey) =>
                 /\ lastOp'.op = "loadDiscarded"
                 /\ UNCHANGED << officeDays, excludedDays, reqValue, excludeWeekends,
                                 excludeBankHolidays >>
            /\ lastOp'.op = "load" =>
                 /\ l.month = monthKey
                 /\ officeDays' = LoadedForViewedMonth.officeDays
                 /\ excludedDays' = LoadedForViewedMonth.excludedDays
                 /\ reqValue' = LoadedForViewedMonth.reqValue
                 /\ excludeWeekends' = LoadedForViewedMonth.excludeWeekends
                 /\ excludeBankHolidays' = LoadedForViewedMonth.excludeBankHolidays]_vars

\* The response for April, which has a saved office day, has arrived last
\* while May is viewed and shows May's loaded, empty selection.
C27_Witness ==
  /\ lastOp.op = "loadDiscarded"
  /\ loads = {}
  /\ monthKey # MonthKeyOf(OpeningMonth)
  /\ officeTrackerStore[MonthKeyOf(OpeningMonth)] # NoDoc
  /\ officeTrackerStore[MonthKeyOf(OpeningMonth)].officeDays # {}
  /\ officeDays = {}

(***************************************************************************)
(* Properties of the persisted records (checked under SpecAuth)            *)
(***************************************************************************)

\* C13: no record passed to setDocument contains a field whose value is
\* undefined, the profile created on a first Google or GitHub sign-in included.
C13_NoUndefinedFieldWritten ==
  lastWrite # NoWrite => \A f \in DOMAIN lastWrite.data : lastWrite.data[f] # "undefined"

(***************************************************************************)
(* Properties of the date helpers (checked under SpecDates)                *)
(***************************************************************************)

\* The dates from a to b that are neither Saturday, Sunday nor a bank holiday.
PlainWorkingDates(a, b) ==
  {d \in a..b : getDay(d) \notin {0, 6} /\ formatDate(d) \notin BANK_HOLIDAYS}

\* C15: countWorkingDays(from, to) is the number of dates of [from, to] that
\* are neither Saturday, Sunday nor a bank holiday, whatever the tracker's
\* toggles are; it is 0 when from is after to, and 5 for 2026-02-02 to
\* 2026-02-06.
C15_CountWorkingDays ==
  fnOut.fn = "countWorkingDays" =>
    /\ fnOut.count = Cardinality(PlainWorkingDates(parseDate(fnIn.fromDate),
                                                   parseDate(fnIn.toDate)))
    /\ fnIn.fromDate > fnIn.toDate => fnOut.count = 0
    /\ fnIn.fromDate = 20260202 /\ fnIn.toDate = 20260206 => fnOut.count = 5

\* A range over Easter 2026 has been counted with the bank-holiday toggle off.
C15_Witness ==
  /\ fnOut.fn = "countWorkingDays"
  /\ fnIn.fromDate = 20260402 /\ fnIn.toDate = 20260407
  /\ fnOut.count = 2
  /\ ~excludeBankHolidays

MonthKeySeq(year, month) ==
  [d \in 1..(MkDate(year, month + 1, 0) - MkDate(year, month, 1) + 1) |->
     formatDate(MkDate(year, month, 1) + (d - 1))]

\* The weekday column of a date, 0 = Monday.
ColumnOf(dateStr) == (getDay(parseDate(dateStr)) + 6) % 7

\* getCalendarGrid's cells are full Monday-first weeks: the month's dates in
\* their columns, empty slots elsewhere.
SlotGridIsFullWeeks(cells, year, month) ==
  /\ Len(cells) % 7 = 0
  /\ \A i \in 1..Len(cells) : cells[i] # 0 => ColumnOf(cells[i]) = (i - 1) % 7
  /\ SelectSeq(cells, LAMBDA c : c # 0) = MonthKeySeq(year, month)

\* buildFullCalendarGrid's cells are full Monday-first weeks: consecutive
\* dates in their columns, the month's dates flagged inMonth and the
\* neighbouring months' dates not.
SpillGridIsFullWeeks(cells, year, month) ==
  /\ Len(cells) % 7 = 0
  /\ \A i \in 1..Len(cells) : ColumnOf(cells[i].date) = (i - 1) % 7
  /\ \A i \in 1..(Len(cells) - 1) :
       parseDate(cells[i + 1].date) = parseDate(cells[i].date) + 1
  /\ \A i \in 1..Len(cells) :
       cells[i].inMonth <=> (cells[i].date \div 100 = year * 100 + month + 1)
  /\ [i \in 1..Len(SelectSeq(cells, LAMBDA c : c.inMonth)) |->
        SelectSeq(cells, LAMBDA c : c.inMonth)[i].date] = MonthKeySeq(year, month)

\* C19: for every year and month the calendar grid is made of full
\* Monday-first weeks: its length is a multiple of 7, the cell at index i is
\* in weekday column i mod 7, the month's dates appear once each in order,
\* and the other cells are empty slots (getCalendarGrid) or dates of the
\* neighbouring months (buildFullCalendarGrid).
C19_GridIsFullWeeks ==
  /\ fnOut.fn = "getCalendarGrid" =>
       SlotGridIsFullWeeks(fnOut.cells, fnIn.year, fnIn.month)
  /\ fnOut.fn = "buildFullCalendarGrid" =>
       SpillGridIsFullWeeks(fnOut.cells, fnIn.year, fnIn.month)

(***************************************************************************)
(* Properties of the Leave page (checked under SpecLeave)                  *)
(***************************************************************************)

\* C20: the allowance is never negative, after any sequence of steps, edits
\* of the input committed by blur or Enter, additions and deletions of leave,
\* and the load of the stored document.
C20_AvailableDaysNonNegative == availableDays >= 0

\* An edit of the input has just been committed and left the allowance at 0
\* (a negative number typed, or no number typed at 0); the write is in flight.
C20_Witness ==
  /\ availableDays = 0
  /\ lastOp = Op("availableBlur", 0)
  /\ saveStatus = "saving"

\* An entry whose range is in order and holds at least one working day.
IsValidEntry(e) ==
  /\ e.toDate >= e.fromDate
  /\ PlainWorkingDates(parseDate(e.fromDate), parseDate(e.toDate)) # {}

\* C21: every entry that enters the list has toDate >= fromDate and at least
\* one working day, and a submit of the sheet that is turned down changes
\* neither the list nor what is written.
C21_AddedEntriesAreValid ==
  [][/\ \A i \in 1..Len(entries') :
          (\A j \in 1..Len(entries) : entries[j] # entries'[i]) => IsValidEntry(entries'[i])
     /\ lastOp'.op = "submitIgnored" =>
          /\ entries' = entries
          /\ persists' = persists
          /\ holidayLeaveStore' = holidayLeaveStore]_vars

\* An entry entered in the sheet and an entry made by a tap are both in the list.
C21_Witness ==
  /\ \E i \in 1..Len(entries) : "note" \in DOMAIN entries[i] /\ entries[i].id > 0
  /\ \E i \in 1..Len(entries) : entries[i].fromDate = entries[i].toDate

\* Entries as taps alone build them: single working days, no date twice.
TapBuilt(list) ==
  /\ \A i \in 1..Len(list) :
       /\ list[i].fromDate = list[i].toDate
       /\ ~isWeekend(parseDate(list[i].fromDate))
       /\ ~isBankHoliday(list[i].fromDate)
  /\ \A i, j \in 1..Len(list) : i # j => list[i].fromDate # list[j].fromDate

\* The step is a tap on date d of the leave calendar.
IsLeaveTap(d) == lastOp' = Op("leaveTap", d)

\* C25: a tap on a date with a single-day entry deletes that entry; on a date
\* covered only by a longer entry it changes nothing; on any other date it
\* appends a one-day entry.  Taps keep entries built by taps alone (the empty
\* list at first) pairwise different single days with usedDays the size of
\* the leave-day set, and a second tap on the same date restores the booked
\* dates.
C25_LeaveTap ==
  [][\A d \in LeaveTapDates : IsLeaveTap(d) =>
       /\ SingleDayIds(entries, d) # {} =>
            /\ entries' = WithoutId(entries, FirstSingleDayId(entries, d))
            /\ Len(entries') = Len(entries) - 1
       /\ (SingleDayIds(entries, d) = {} /\ d \in buildLeaveDaysSet(entries)) =>
            /\ entries' = entries
            /\ persists' = persists
            /\ saveStatus' = saveStatus
       /\ (SingleDayIds(entries, d) = {} /\ d \notin buildLeaveDaysSet(entries)) =>
            /\ Len(entries') = Len(entries) + 1
            /\ SubSeq(entries', 1, Len(entries)) = entries
            /\ entries'[Len(entries')].fromDate = d
            /\ entries'[Len(entries')].toDate = d
       /\ TapBuilt(entries) =>
            /\ TapBuilt(entries')
            /\ UsedDaysFrom(entries', 1) = Cardinality(buildLeaveDaysSet(entries'))
            /\ buildLeaveDaysSet(EntriesAfterTap(entries', d, nextId' + 1))
                 = buildLeaveDaysSet(entries)]_vars

\* Two days have been booked by two taps.
C25_Witness ==
  /\ lastOp.op = "leaveTap"
  /\ Len(entries) = 2
  /\ nextId = 2
  /\ TapBuilt(entries)
  /\ usedDays = 2

\* C29: whenever the save indicator shows 'saved', no setDocument call of
\* persist is still in flight, also when several persists overlap and settle
\* in any order.
C29_SavedMeansNothingInFlight ==
  saveStatus = "saved" => persists = << >>

(***************************************************************************)
(* Properties of profile creation (checked under SpecAuth)                 *)
(***************************************************************************)

\* The record is a default profile: role 'employee', isActive true.
IsDefaultProfile(data) ==
  /\ "role" \in DOMAIN data /\ data.role = "employee"
  /\ "isActive" \in DOMAIN data /\ data.isActive = "true"

\* The step is a sign-in: login, loginWithGoogle or loginWithGithub.
IsSignInStep ==
  lastOp'.op \in {"login", "socialFirstSignIn", "socialSignIn", "socialFailed"}

\* C24: register writes users/{uid} with role 'employee' and isActive true,
\* without merge; a sign-in writes nothing and leaves the users document as
\* it is when the document exists, and a social sign-in that finds no
\* document writes the default profile.
C24_ProfileCreation ==
  [][/\ lastOp'.op \in {"register", "registerFailed"} =>
          /\ lastWrite' = Write("users", currentUser'.uid, lastWrite'.data, FALSE)
          /\ IsDefaultProfile(lastWrite'.data)
     /\ lastOp'.op = "register" => IsDefaultProfile(usersStore'[currentUser'.uid])
     /\ (IsSignInStep /\ usersStore[Uid] # NoDoc) =>
          /\ usersStore' = usersStore
          /\ lastWrite' = lastWrite
     /\ (IsSignInStep /\ usersStore[Uid] = NoDoc /\ usersStore'[Uid] # NoDoc) =>
          /\ lastOp'.op = "socialFirstSignIn"
          /\ lastWrite' = Write("users", Uid, lastWrite'.data, FALSE)
          /\ IsDefaultProfile(lastWrite'.data)
          /\ IsDefaultProfile(usersStore'[Uid])]_vars

\* A social sign-in has just found the profile the user edited on the
\* Profile page.
C24_Witness ==
  /\ lastOp.op = "socialSignIn"
  /\ usersStore[Uid] # NoDoc
  /\ "company" \in DOMAIN usersStore[Uid]
  /\ usersStore[Uid].company = "Acme"
  /\ authUser # NoUser
  /\ authUser.company = "Acme"

(***************************************************************************)
(* Properties of the account's life (checked under SpecAccount)            *)
(***************************************************************************)

\* No document of the user is left in the three collections.
NoDataOf(uid) ==
  /\ usersStore[uid] = NoDoc
  /\ holidayLeaveStore = NoDoc
  /\ \A mk \in MonthKeys : officeTrackerStore[mk] = NoDoc

\* C23: when deleteAccount has completed, the users document, the
\* holidayLeave document and every officeTracker document of the user are
\* gone; when deleteAccount has failed, the account and the profile document
\* are as they were before the call.
C23_DeleteAccountRemovesAllData ==
  [][/\ lastOp'.op = "deleteAccount" => NoDataOf(Uid)'
     /\ lastOp'.op = "deleteAccountFailed" =>
          /\ currentUser' = currentUser
          /\ usersStore' = usersStore]_vars

\* C30: a protected route shows its children exactly when loading is false
\* and the user is non-null, neither children nor redirect while loading, and
\* the redirect when loading is false and the user is null; once logout or
\* deleteAccount has signed the account out, no protected page is shown.
C30_RouteGating ==
  /\ Rendered = "children" <=> (~loading /\ authUser # NoUser)
  /\ loading => Rendered \notin {"children", "redirect"}
  /\ (~loading /\ authUser = NoUser) => Rendered = "redirect"
  /\ currentUser = NoUser => Rendered # "children"

(***************************************************************************)
(* Properties of the calendar's display (checked under SpecCalc)           *)
(***************************************************************************)

\* The status the calendar shows for a date, in the current state.
CurStatus(ds) ==
  getDayStatus(ds, viewMonth, excludeWeekends, excludeBankHolidays, excludedDays,
               officeDays, holidayLeaveDays)

\* 'office' if the date is marked, 'holiday' if it is not.
OfficeElseHoliday(ds) ==
  CurStatus(ds) = IF ds \in officeDays THEN "office" ELSE "holiday"

\* The DateKeys of the viewed month.
MonthKeySet == {formatDate(d) : d \in MonthDates}

\* C22: a bank holiday of the viewed month shows 'holiday' when
\* excludeBankHolidays is on, marked or not; when it is off and the date has
\* no manual exclusion it shows 'office' if marked and 'holiday' if not; a
\* booked leave day that is not excluded automatically follows the same rule.
C22_BankHolidayStatus ==
  \A ds \in MonthKeySet :
    /\ ds \in BANK_HOLIDAYS /\ excludeBankHolidays => CurStatus(ds) = "holiday"
    /\ ds \in BANK_HOLIDAYS /\ ~excludeBankHolidays /\ ds \notin DOMAIN excludedDays =>
         OfficeElseHoliday(ds)
    /\ /\ ds \in holidayLeaveDays
       /\ ~(excludeWeekends /\ getDay(parseDate(ds)) \in {0, 6})
       /\ ~(excludeBankHolidays /\ ds \in BANK_HOLIDAYS)
       /\ ds \notin DOMAIN excludedDays
       => OfficeElseHoliday(ds)

\* April 2026 with the bank-holiday toggle on and Good Friday marked office
\* and shown as a holiday.
C22_Witness ==
  /\ excludeBankHolidays
  /\ 20260403 \in officeDays
  /\ 20260403 \in MonthKeySet
  /\ CurStatus(20260403) = "holiday"
  /\ calcOut # NoCalc

\* C28: for every date of the viewed month the calendar shows 'office' or
\* 'home' exactly when the date is in calc.workingDaySet, and shows 'office'
\* exactly when the date is one of those counted in selectedOfficeDays.
C28_DisplayAgreesWithCalc ==
  calcOut # NoCalc =>
    \A ds \in MonthKeySet :
      /\ CurStatus(ds) \in {"office", "home"} <=> ds \in calcOut.calc.workingDaySet
      /\ CurStatus(ds) = "office" <=> ds \in officeDays \cap calcOut.calc.workingDaySet

(***************************************************************************)
(* Properties of the calculation (checked under SpecCalc)                  *)
(***************************************************************************)

\* C3: every date of the viewed month is put in the bucket of the first rule
\* that matches, in the order weekend (toggle on), bank holiday (toggle on),
\* manual exclusion, booked leave, working day; so an enabled automatic
\* exclusion wins over a manual exclusion or leave on the same date, and
\* totalDays is the sum of the five counts.  Home's pool is the same pool.
C3_ClassificationOrder ==
  calcOut.applied =>
    LET c == calcOut.calc
    IN  /\ c.weekendCount = Cardinality(WeekendDates)
        /\ c.bankHolidayCount = Cardinality(BankDates)
        /\ c.manualExcludedCount = Cardinality(ManualDates)
        /\ c.holidayLeaveCount = Cardinality(LeaveDates)
        /\ c.workingDaySet = {formatDate(d) : d \in WorkingDates}
        /\ c.workingDays = Cardinality(WorkingDates)
        /\ c.totalDays = Cardinality(MonthDates)
        /\ c.totalDays = c.weekendCount + c.bankHolidayCount + c.manualExcludedCount
                           + c.holidayLeaveCount + c.workingDays
        /\ calcOut.officeCalc.workingDays = c.workingDays

\* Both toggles are on and the manual exclusions include a bank holiday and
\* a weekend day: fewer dates are counted as manual than are excluded by hand.
C3_Witness ==
  /\ calcOut.applied
  /\ excludeWeekends /\ excludeBankHolidays
  /\ \E d \in DOMAIN excludedDays : isBankHoliday(d)
  /\ \E d \in DOMAIN excludedDays : isWeekend(parseDate(d))
  /\ calcOut.calc.manualExcludedCount > 0
  /\ calcOut.calc.manualExcludedCount < Cardinality(DOMAIN excludedDays)

\* r = ceil(w * p / 100)
IsCeilOfPercent(r, w, p) == r * 100 >= w * p /\ (r - 1) * 100 < w * p

\* C4: requiredOfficeDays = ceil(workingDays * pct / 100) for every pct in
\* 0..100; it does not decrease when pct grows; it is 0 at pct = 0 and at
\* least 1 when pct > 0 and the pool is not empty.
C4_RequiredIsCeil ==
  calcOut.applied =>
    LET w == calcOut.calc.workingDays
        r == calcOut.calc.requiredOfficeDays
    IN  /\ IsCeilOfPercent(r, w, reqValue)
        /\ \A p \in ReqMin..ReqMax : IsCeilOfPercent(RequiredOfficeDays(w, p), w, p)
        /\ \A p \in ReqMin..reqValue : RequiredOfficeDays(w, p) <= r
        /\ \A p \in reqValue..ReqMax : r <= RequiredOfficeDays(w, p)
        /\ (reqValue = 0 => r = 0)
        /\ (reqValue > 0 /\ w > 0 => r >= 1)
        /\ RequiredOfficeDays(w, 0) = 0

\* A positive percentage of a non-empty pool that is not a whole number of
\* days: the requirement is rounded up.
C4_Witness ==
  /\ calcOut.applied
  /\ reqValue > 0
  /\ calcOut.calc.workingDays > 0
  /\ (calcOut.calc.workingDays * reqValue) % 100 # 0
  /\ calcOut.calc.requiredOfficeDays * 100 > calcOut.calc.workingDays * reqValue

\* C5: 0 <= selectedOfficeDays <= workingDays, selectedOfficeDays being the
\* number of office-marked dates that are in the working-day pool.
C5_SelectedWithinPool ==
  calcOut.applied =>
    /\ calcOut.calc.selectedOfficeDays >= 0
    /\ calcOut.calc.selectedOfficeDays <= calcOut.calc.workingDays
    /\ calcOut.calc.selectedOfficeDays =
         Cardinality(officeDays \cap {formatDate(d) : d \in WorkingDates})
    /\ calcOut.officeCalc.selectedOfficeDays >= 0
    /\ calcOut.officeCalc.selectedOfficeDays <= calcOut.officeCalc.workingDays

\* Some office marks are in the pool and some are not.
C5_Witness ==
  /\ calcOut.applied
  /\ calcOut.calc.selectedOfficeDays > 0
  /\ calcOut.calc.selectedOfficeDays < Cardinality(officeDays)

\* The status the stated order gives for (selected, required).
StatusInOrder(selected, required) ==
  IF selected >= required THEN "on-track"
  ELSE IF 4 * selected >= 3 * required THEN "at-risk"
  ELSE "not-meeting"

\* C6: the status is 'on-track' if selected >= required, otherwise 'at-risk'
\* if selected >= 0.75 * required, otherwise 'not-meeting'; exactly one of
\* the three for every input, on the tracker page and on Home.
C6_StatusOrder ==
  calcOut.applied =>
    LET c == calcOut.calc
        h == calcOut.officeCalc
    IN  /\ c.complianceStatus \in {"on-track", "at-risk", "not-meeting"}
        /\ c.complianceStatus = StatusInOrder(c.selectedOfficeDays, c.requiredOfficeDays)
        /\ (c.complianceStatus = "on-track") = (c.selectedOfficeDays >= c.requiredOfficeDays)
        /\ h.status = StatusInOrder(h.selectedOfficeDays, h.requiredOfficeDays)

\* Short of the requirement but at three quarters of it or more.
C6_Witness ==
  /\ calcOut.applied
  /\ calcOut.calc.complianceStatus = "at-risk"
  /\ calcOut.officeCalc.status = "at-risk"
  /\ calcOut.calc.selectedOfficeDays < calcOut.calc.requiredOfficeDays

\* C7: at a required percentage of 0, progressPercentage is 100 and the
\* status is 'on-track', whatever the month, the marks and the exclusions.
C7_ZeroPercentOnTrack ==
  calcOut.applied /\ reqValue = 0 =>
    /\ calcOut.calc.progressPercentage = 100
    /\ calcOut.calc.complianceStatus = "on-track"
    /\ calcOut.officeCalc.progressPercentage = 100
    /\ calcOut.officeCalc.status = "on-track"

\* 0 % required, a non-empty pool and no office mark at all.
C7_Witness ==
  /\ calcOut.applied
  /\ reqValue = 0
  /\ calcOut.calc.workingDays > 0
  /\ officeDays = {}
  /\ calcOut.calc.progressPercentage = 100

\* n = Math.round(100 * s / r), r > 0: n - 1/2 <= 100 * s / r < n + 1/2.
IsRoundOfRatio(n, s, r) == (2 * n - 1) * r <= 200 * s /\ 200 * s < (2 * n + 1) * r

\* C8: progressPercentage = min(100, round(selected / required * 100)) when
\* required > 0 and 100 when required = 0; it lies in 0..100 and is 100
\* whenever selected >= required.
C8_ProgressFormula ==
  calcOut.applied =>
    LET s == calcOut.calc.selectedOfficeDays
        r == calcOut.calc.requiredOfficeDays
        p == calcOut.calc.progressPercentage
    IN  /\ p \in 0..100
        /\ (r = 0 => p = 100)
        /\ (r > 0 /\ p < 100 => IsRoundOfRatio(p, s, r))
        /\ (r > 0 /\ p = 100 => 200 * s >= 199 * r)
        /\ (s >= r => p = 100)

\* A ratio below 1 that is not a whole percentage: it is rounded.
C8_Witness ==
  /\ calcOut.applied
  /\ calcOut.calc.requiredOfficeDays > 0
  /\ calcOut.calc.progressPercentage \in 1..99
  /\ (100 * calcOut.calc.selectedOfficeDays) % calcOut.calc.requiredOfficeDays # 0

\* The calculation has run on February 2026 with both toggles on, no manual
\* exclusion and no leave.
FebruaryPlain ==
  /\ calcOut # NoCalc
  /\ viewMonth = MkDate(2026, 1, 1)
  /\ excludeWeekends /\ excludeBankHolidays
  /\ excludedDays = EmptyMap
  /\ holidayLeaveDays = {}

\* The number of working weekdays marked office.
MarkedWorkingWeekdays ==
  Cardinality({d \in WorkingDates : formatDate(d) \in officeDays})

\* C16: February 2026, both toggles on, no manual exclusion, no leave: 8
\* weekend days and 20 working days; at 60 % the requirement is 12; with 12
\* working weekdays marked the status is on-track and progress is 100.
C16_FebruaryExample ==
  FebruaryPlain =>
    /\ calcOut.calc.weekendCount = 8
    /\ calcOut.calc.workingDays = 20
    /\ reqValue = 60 =>
         /\ calcOut.calc.requiredOfficeDays = 12
         /\ MarkedWorkingWeekdays = 12 =>
              /\ calcOut.calc.complianceStatus = "on-track"
              /\ calcOut.calc.progressPercentage = 100

C16_Witness ==
  /\ FebruaryPlain
  /\ reqValue = 60
  /\ MarkedWorkingWeekdays = 12
  /\ calcOut.calc.selectedOfficeDays = 12

\* C17: the same month and settings at 60 % (requirement 12) with only 8
\* working weekdays marked: the status is not-meeting, not at-risk.
C17_FebruaryEightMarked ==
  FebruaryPlain /\ reqValue = 60 /\ MarkedWorkingWeekdays = 8 =>
    /\ calcOut.calc.requiredOfficeDays = 12
    /\ calcOut.calc.selectedOfficeDays = 8
    /\ calcOut.calc.complianceStatus = "not-meeting"

C17_Witness ==
  /\ FebruaryPlain
  /\ reqValue = 60
  /\ MarkedWorkingWeekdays = 8
  /\ calcOut.calc.complianceStatus # "at-risk"

====
